---- MODULE Spec2Model ----
(***************************************************************************)
(* Model of the Backstage configuration tooling:                           *)
(*   scripts/merge-backstage-config.py      (class BackstageMerger)        *)
(*   scripts/manage-backstage-resources.py  (class InfobloxResourceManager)*)
(*                                                                         *)
(* Python values are encoded as follows.                                   *)
(*   - dict.get(k) of an absent key (None) is <<>>, a present value v is   *)
(*     <<v>>;                                                              *)
(*   - a dict (insertion ordered) is a sequence of <<key, value>> pairs    *)
(*     with pairwise distinct keys;                                        *)
(*   - a string that the code compares with <, >= or sorts is the          *)
(*     sequence of its character codes (ASCII); a string that the code     *)
(*     only tests for equality or truth is a TLA+ string.                  *)
(***************************************************************************)
EXTENDS Integers, Sequences, FiniteSets, TLC

VARIABLES
    existing,       \* detect_conflicts / resolve_conflicts: parameter `existing`
    new,            \* detect_conflicts / resolve_conflicts: parameter `new`
    strategy,       \* resolve_conflicts: parameter `strategy`
    conflicts,      \* value returned by detect_conflicts
    merged,         \* value returned by resolve_conflicts
    called,         \* the functions of BackstageMerger that have been invoked
    target_file,    \* merge_file: content of target_dir / backstage_file.name
    backstage_file, \* merge_file: content of the file at path `backstage_file`
    file_name,      \* merge_file: backstage_file.name
    result,         \* merge_file: returned value, None until it returns
    config_dir,     \* the files of InfobloxResourceManager.config_path: file f
                    \* is config_path / ManagerConfigFiles[f]
    backstage_resources,    \* InfobloxResourceManager.backstage_resources
    listing,        \* value returned by list_backstage_resources, None before
    calls,          \* the other calls made so far, oldest first, each with
                    \* its arguments and its outcome
    source_dir,     \* merge_all_files: the files of source_dir, file f is
                    \* source_dir / ConfigFiles[f]
    results,        \* merge_all_files: returned dict, None until it returns
    args,           \* the arguments of the call about to be made on a
                    \* function of its arguments alone
    backup_dir,     \* main: the files of merger.backup_dir, file f is
                    \* backup_dir / ConfigFiles[f]; None until create_backup
    invocations     \* the merge_file calls of concurrent invocations: for
                    \* each, its arguments, its position and its local
                    \* variables

mergeVars == <<existing, new, strategy, conflicts, merged, called>>
fileVars == <<target_file, backstage_file, file_name, result>>
managerVars == <<config_dir, backstage_resources, listing>>
commandVars == <<calls, source_dir, results, args>>
runVars == <<backup_dir, invocations>>

vars == <<mergeVars, fileVars, managerVars, commandVars, runVars>>

-----------------------------------------------------------------------------
(* Python values *)

None == <<>>
Some(v) == <<v>>

\* Python truth value of the result of dict.get on a string-valued tag:
\* None and the empty string are false.
Truthy(opt) == opt # None /\ opt[1] # ""

\* Character-code strings.  "1970-01-01", "1969-12-31", "2025-09-09".
Str_1970_01_01 == <<49, 57, 55, 48, 45, 48, 49, 45, 48, 49>>
Str_1969_12_31 == <<49, 57, 54, 57, 45, 49, 50, 45, 51, 49>>
Str_2025_09_09 == <<50, 48, 50, 53, 45, 48, 57, 45, 48, 57>>
StrEmpty == <<>>
\* "old-app" and "old-ap"
Str_old_app == <<111, 108, 100, 45, 97, 112, 112>>
Str_old_ap == <<111, 108, 100, 45, 97, 112>>

\* Python's str < str: lexicographic by code point, a proper prefix is smaller.
StrLess(s, t) ==
    \E i \in 1..(Len(t)) :
        /\ \A j \in 1..(i - 1) : j <= Len(s) /\ s[j] = t[j]
        /\ \/ i > Len(s)
           \/ i <= Len(s) /\ s[i] < t[i]

StrGeq(s, t) == ~StrLess(s, t)

StrLeq(s, t) == ~StrLess(t, s)

\* Python's `sub in s` for strings
StrContains(s, sub) ==
    \E i \in 0..(Len(s) - Len(sub)) : SubSeq(s, i + 1, i + Len(sub)) = sub

-----------------------------------------------------------------------------
(* Ordered dictionaries *)

DictKeys(d) == {d[i][1] : i \in DOMAIN d}

HasKey(d, k) == k \in DictKeys(d)

\* d[k] for a key that is present
DictGet(d, k) == d[CHOOSE i \in DOMAIN d : d[i][1] = k][2]

\* d[k] = v: an existing key keeps its position, a new key goes last
DictSet(d, k, v) ==
    IF HasKey(d, k)
    THEN [i \in DOMAIN d |-> IF d[i][1] = k THEN <<k, v>> ELSE d[i]]
    ELSE Append(d, <<k, v>>)

IsDict(d) == \A i, j \in DOMAIN d : d[i][1] = d[j][1] => i = j

-----------------------------------------------------------------------------
(* Resource entries *)

\* The tags the scripts read from an entry's ea_tags mapping.
TagNames == {"BackstageId", "CreatedBy", "BackstageEntity", "CreatedAt", "Owner"}

\* A resource entry (a dict) is [ea_tags, fields, allocate_ip]: its ea_tags
\* mapping if it has one, the record fields it has besides, and the value of
\* allocate_ip (a Python literal) if present.  An A record with the given
\* ea_tags:
Entry(ea_tags) ==
    [ea_tags |-> ea_tags, fields |-> {"fqdn", "ip_addr"}, allocate_ip |-> None]

\* A top-level value that is not a dict
ScalarEntry == [scalar |-> "text"]

\* isinstance(resource_config, dict)
IsMapping(value) == "ea_tags" \in DOMAIN value

\* value.get('ea_tags', {}): an entry without ea_tags has no tag at all.
NoTags == [t \in TagNames |-> None]

EaTags(value) == IF value.ea_tags = None THEN NoTags ELSE value.ea_tags[1]

\* tags.get(name) / tags.get(name, default)
TagGet(tags, name) == tags[name]
TagGetDefault(tags, name, default) ==
    IF tags[name] = None THEN default ELSE tags[name][1]

-----------------------------------------------------------------------------
(* BackstageMerger.detect_conflicts *)

\* DetectKey with the second test written `elif new_backstage_id:`
DetectKey_NoManualTest(key, existing_value, new_value) ==
    LET existing_backstage_id == TagGet(EaTags(existing_value), "BackstageId")
        new_backstage_id == TagGet(EaTags(new_value), "BackstageId")
    IN  IF /\ Truthy(existing_backstage_id)
           /\ Truthy(new_backstage_id)
           /\ existing_backstage_id # new_backstage_id
        THEN << [kind |-> "identifier-mismatch", key |-> key,
                 existing_id |-> existing_backstage_id,
                 new_id |-> new_backstage_id] >>
        ELSE IF Truthy(new_backstage_id)
        THEN << [kind |-> "manual-overwrite", key |-> key,
                 existing_id |-> None,
                 new_id |-> new_backstage_id] >>
        ELSE << >>

\* The decision taken for one key of `new` that is also in `existing`;
\* the result is the list of conflicts this key appends (empty or one).
DetectKey(key, existing_value, new_value) ==
    LET existing_tags == EaTags(existing_value)
        new_tags == EaTags(new_value)
        existing_backstage_id == TagGet(existing_tags, "BackstageId")
        new_backstage_id == TagGet(new_tags, "BackstageId")
    IN  IF /\ Truthy(existing_backstage_id)
           /\ Truthy(new_backstage_id)
           /\ existing_backstage_id # new_backstage_id
        THEN << [kind |-> "identifier-mismatch", key |-> key,
                 existing_id |-> existing_backstage_id,
                 new_id |-> new_backstage_id] >>
        ELSE IF ~Truthy(existing_backstage_id) /\ Truthy(new_backstage_id)
        THEN << [kind |-> "manual-overwrite", key |-> key,
                 existing_id |-> None,
                 new_id |-> new_backstage_id] >>
        ELSE << >>

RECURSIVE DetectLoop(_, _, _)
\* the for loop over new.items(), from item i on
DetectLoop(ex, nw, i) ==
    IF i > Len(nw) THEN << >>
    ELSE LET key == nw[i][1]
             new_value == nw[i][2]
         IN  (IF HasKey(ex, key)
              THEN DetectKey(key, DictGet(ex, key), new_value)
              ELSE << >>)
             \o DetectLoop(ex, nw, i + 1)

detect_conflicts(ex, nw) == DetectLoop(ex, nw, 1)

-----------------------------------------------------------------------------
(* BackstageMerger.resolve_conflicts *)

\* backstage-wins that lets a Backstage entry win only when it is not older
ReplacesBackstageWins_NotOlder(existing_value, new_value) ==
    /\ Truthy(TagGet(EaTags(new_value), "BackstageId"))
    /\ StrGeq(TagGetDefault(EaTags(new_value), "CreatedAt", Str_1970_01_01),
              TagGetDefault(EaTags(existing_value), "CreatedAt", Str_1970_01_01))

\* The three strategy branches, each on its own
ReplacesBackstageWins(existing_value, new_value) ==
    Truthy(TagGet(EaTags(new_value), "BackstageId"))

ReplacesManualProtected(existing_value, new_value) ==
    ~(/\ ~Truthy(TagGet(EaTags(existing_value), "BackstageId"))
      /\ Truthy(TagGet(EaTags(new_value), "BackstageId")))

ReplacesTimestampWins(existing_value, new_value) ==
    LET existing_time ==
            TagGetDefault(EaTags(existing_value), "CreatedAt", Str_1970_01_01)
        new_time ==
            TagGetDefault(EaTags(new_value), "CreatedAt", Str_1970_01_01)
    IN  StrGeq(new_time, existing_time)

\* A resolve that applies Backstage updates under fail-on-conflict too
Replaces_FailOnConflictUpdates(strat, existing_value, new_value) ==
    CASE strat = "manual-protected" ->
            ~(/\ ~Truthy(TagGet(EaTags(existing_value), "BackstageId"))
              /\ Truthy(TagGet(EaTags(new_value), "BackstageId")))
      [] strat = "timestamp-wins" ->
            StrGeq(TagGetDefault(EaTags(new_value), "CreatedAt", Str_1970_01_01),
                   TagGetDefault(EaTags(existing_value), "CreatedAt", Str_1970_01_01))
      [] OTHER -> Truthy(TagGet(EaTags(new_value), "BackstageId"))

\* backstage-wins that only updates entries that are Backstage-owned already
Replaces_BackstageOverBackstageOnly(strat, existing_value, new_value) ==
    CASE strat = "backstage-wins" ->
            /\ Truthy(TagGet(EaTags(new_value), "BackstageId"))
            /\ Truthy(TagGet(EaTags(existing_value), "BackstageId"))
      [] strat = "manual-protected" ->
            ReplacesManualProtected(existing_value, new_value)
      [] strat = "timestamp-wins" ->
            ReplacesTimestampWins(existing_value, new_value)
      [] OTHER -> FALSE

\* manual-protected that keeps every existing entry without a BackstageId
Replaces_ProtectsAnyManual(strat, existing_value, new_value) ==
    CASE strat = "backstage-wins" ->
            ReplacesBackstageWins(existing_value, new_value)
      [] strat = "manual-protected" ->
            Truthy(TagGet(EaTags(existing_value), "BackstageId"))
      [] strat = "timestamp-wins" ->
            ReplacesTimestampWins(existing_value, new_value)
      [] OTHER -> FALSE

\* timestamp-wins with a missing CreatedAt read as the empty string
Replaces_MissingTimeIsEmpty(strat, existing_value, new_value) ==
    CASE strat = "backstage-wins" ->
            ReplacesBackstageWins(existing_value, new_value)
      [] strat = "manual-protected" ->
            ReplacesManualProtected(existing_value, new_value)
      [] strat = "timestamp-wins" ->
            StrGeq(TagGetDefault(EaTags(new_value), "CreatedAt", StrEmpty),
                   TagGetDefault(EaTags(existing_value), "CreatedAt", StrEmpty))
      [] OTHER -> FALSE

\* Does the strategy assign merged[key] = new_value for a key in both?
Replaces(strat, existing_value, new_value) ==
    CASE strat = "backstage-wins" ->
            ReplacesBackstageWins(existing_value, new_value)
      [] strat = "manual-protected" ->
            ReplacesManualProtected(existing_value, new_value)
      [] strat = "timestamp-wins" ->
            ReplacesTimestampWins(existing_value, new_value)
      [] OTHER -> FALSE

\* ResolveItem that adds a new key only when the incoming entry has a
\* BackstageId
ResolveItem_AddsBackstageOnly(ex, strat, acc, key, new_value) ==
    IF HasKey(ex, key)
    THEN IF Replaces(strat, DictGet(ex, key), new_value)
         THEN DictSet(acc, key, new_value)
         ELSE acc
    ELSE IF Truthy(TagGet(EaTags(new_value), "BackstageId"))
         THEN DictSet(acc, key, new_value)
         ELSE acc

\* One iteration of the for loop: the dict `acc` after the item (key, new_value)
ResolveItem(ex, strat, acc, key, new_value) ==
    IF HasKey(ex, key)
    THEN IF Replaces(strat, DictGet(ex, key), new_value)
         THEN DictSet(acc, key, new_value)
         ELSE acc
    ELSE DictSet(acc, key, new_value)

RECURSIVE ResolveLoop(_, _, _, _, _)
\* the for loop over new.items(), from item i on, with the dict built so far
ResolveLoop(ex, nw, strat, i, acc) ==
    IF i > Len(nw) THEN acc
    ELSE ResolveLoop(ex, nw, strat, i + 1,
                     ResolveItem(ex, strat, acc, nw[i][1], nw[i][2]))

\* resolve_conflicts that starts from an empty dict (merged = {})
resolve_conflicts_FromEmpty(ex, nw, strat) == ResolveLoop(ex, nw, strat, 1, << >>)

resolve_conflicts(ex, nw, strat) == ResolveLoop(ex, nw, strat, 1, ex)

-----------------------------------------------------------------------------
(* Files.  A file is described by whether it exists, its comment lines and   *)
(* what yaml.safe_load makes of its text: "error" (yaml.YAMLError), "null"   *)
(* (no document: an empty file, or comments only) or "mapping" with the      *)
(* loaded dict as data.                                                      *)

MissingFile == [exists |-> FALSE, comments |-> << >>, parse |-> "null", data |-> << >>]

EmptyFile == [exists |-> TRUE, comments |-> << >>, parse |-> "null", data |-> << >>]

MalformedFile == [exists |-> TRUE, comments |-> << >>, parse |-> "error", data |-> << >>]

EnvironmentComment == [line |-> "# Environment:"]

\* A hand-written file holding the document d under an "# Environment:" line
YamlFile(d) ==
    [exists |-> TRUE, comments |-> << EnvironmentComment >>,
     parse |-> "mapping", data |-> d]

\* re.sub(r'^# Environment:.*$', '', content, flags=re.MULTILINE)
StripEnvironment(file) ==
    [file EXCEPT !.comments =
        SelectSeq(file.comments, LAMBDA c : c # EnvironmentComment)]

\* A loader that recovers an entry from a file with a syntax error
load_yaml_safely_RecoversPart(file) ==
    IF file.exists
    THEN IF file.parse = "error" THEN << <<"web", Entry(None)>> >>
         ELSE IF file.parse = "null" THEN << >>
         ELSE file.data
    ELSE << >>

\* BackstageMerger.load_yaml_safely
load_yaml_safely(file) ==
    IF file.exists
    THEN LET content == StripEnvironment(file)
         IN  IF content.parse = "error" THEN << >>          \* except yaml.YAMLError
             ELSE IF content.parse = "null" THEN << >>       \* None or {}
             ELSE content.data                               \* (an empty dict is falsy too)
    ELSE << >>

\* merge_file: the record_types table and its default
RecordTypeLabel(name) ==
    CASE name = "a-records.yaml" -> "A"
      [] name = "cname-records.yaml" -> "CNAME"
      [] name = "host-records.yaml" -> "Host"
      [] name = "networks.yaml" -> "Network"
      [] name = "dns-zones.yaml" -> "DNS Zone"
      [] OTHER -> "DNS"

\* BackstageMerger.save_yaml_with_header: the file it leaves at file_path
save_yaml_with_header(data, record_type, additions) ==
    LET header ==
            << [line |-> "# <record_type> Records - <Environment> Environment",
                record_type |-> record_type],
               [line |-> "# Last updated: <now>"],
               [line |-> "# Managed by Terraform and Backstage"] >>
            \o (IF additions # << >>
                THEN << [line |-> "# Recent additions:", keys |-> additions] >>
                ELSE << >>)
    IN  IF data # << >>
        THEN [exists |-> TRUE, comments |-> header,
              parse |-> "mapping", data |-> data]
        ELSE [exists |-> TRUE,
              comments |-> header \o << [line |-> "# No records configured"] >>,
              parse |-> "null", data |-> << >>]

\* list(d.keys())
KeyList(d) == [i \in DOMAIN d |-> d[i][1]]

\* merge_file that gives up on any conflict, whatever the strategy
FailsOnConflict_AnyStrategy(found, strat) == found # << >>

\* Does merge_file return False before resolving?
\* (conflicts were printed and the strategy is fail-on-conflict)
FailsOnConflict(found, strat) == found # << >> /\ strat = "fail-on-conflict"

-----------------------------------------------------------------------------
(* InfobloxResourceManager: the registry of Backstage resources *)

\* The record stored for an entry
ResourceInfo(resource_name, resource_config, source_file) ==
    LET ea_tags == EaTags(resource_config)
    IN  [resource_name |-> resource_name,
         entity_name |-> TagGet(ea_tags, "BackstageEntity"),
         source_file |-> source_file,
         config |-> resource_config,
         created_at |-> TagGet(ea_tags, "CreatedAt"),
         owner |-> TagGet(ea_tags, "Owner")]

\* ExtractItem without the test of CreatedBy
ExtractItem_NoCreatedByTest(registry, resource_name, resource_config, source_file) ==
    IF IsMapping(resource_config)
    THEN LET backstage_id == TagGet(EaTags(resource_config), "BackstageId")
         IN  IF Truthy(backstage_id)
             THEN DictSet(registry, backstage_id[1],
                          ResourceInfo(resource_name, resource_config, source_file))
             ELSE registry
    ELSE registry

\* ExtractItem that keeps the record an identifier already has
ExtractItem_FirstWins(registry, resource_name, resource_config, source_file) ==
    IF IsMapping(resource_config)
    THEN LET ea_tags == EaTags(resource_config)
             backstage_id == TagGet(ea_tags, "BackstageId")
         IN  IF /\ TagGet(ea_tags, "CreatedBy") = Some("backstage")
                /\ Truthy(backstage_id)
                /\ ~HasKey(registry, backstage_id[1])
             THEN DictSet(registry, backstage_id[1],
                          ResourceInfo(resource_name, resource_config, source_file))
             ELSE registry
    ELSE registry

\* _extract_backstage_resources: the loop body for one item of `data`
ExtractItem(registry, resource_name, resource_config, source_file) ==
    IF IsMapping(resource_config)
    THEN LET ea_tags == EaTags(resource_config)
         IN  IF TagGet(ea_tags, "CreatedBy") = Some("backstage")
             THEN LET backstage_id == TagGet(ea_tags, "BackstageId")
                  IN  IF Truthy(backstage_id)
                      THEN DictSet(registry, backstage_id[1],
                                   ResourceInfo(resource_name, resource_config,
                                                source_file))
                      ELSE registry
             ELSE registry
    ELSE registry

RECURSIVE ExtractLoop(_, _, _, _)
\* _extract_backstage_resources: for resource_name, resource_config in
\* data.items(), from item i on
ExtractLoop(registry, data, source_file, i) ==
    IF i > Len(data) THEN registry
    ELSE ExtractLoop(
            ExtractItem(registry, data[i][1], data[i][2], source_file),
            data, source_file, i + 1)

\* yaml.safe_load(f) or {} of a file that exists and parses
SafeLoadOrEmpty(file) == IF file.parse = "mapping" THEN file.data ELSE << >>

RECURSIVE LoadLoop(_, _, _, _)
\* _load_configurations: for config_file in config_files, from file i on
LoadLoop(registry, dir, config_files, i) ==
    IF i > Len(config_files) THEN registry
    ELSE LET config_file == config_files[i]
             file == dir[i]
         IN  LoadLoop(
                IF file.exists
                THEN ExtractLoop(registry, SafeLoadOrEmpty(file), config_file, 1)
                ELSE registry,
                dir, config_files, i + 1)

\* the list config_files of _load_configurations
ManagerConfigFiles ==
    << "a-records.yaml", "cname-records.yaml", "host-records.yaml",
       "networks.yaml", "dns-zones.yaml" >>

\* _load_configurations, from self.backstage_resources = {}
load_configurations(dir) == LoadLoop(<< >>, dir, ManagerConfigFiles, 1)

\* A YAML scalar is written as the Python literal it loads to.  Its truth
\* value: None, False, 0 and the empty string are false.
PyTruthy(literal) == literal \notin {"None", "False", "0", "''"}

\* config.get('allocate_ip') is truthy
AllocateIp(config) ==
    config.allocate_ip # None /\ PyTruthy(config.allocate_ip[1])

\* _get_record_type that looks for alias and canonical first
get_record_type_CnameFirst(config) ==
    IF "alias" \in config.fields /\ "canonical" \in config.fields
    THEN "CNAME"
    ELSE IF "ip_addr" \in config.fields /\ "fqdn" \in config.fields
    THEN IF AllocateIp(config) THEN "HOST" ELSE "A"
    ELSE IF "network" \in config.fields
    THEN "NETWORK"
    ELSE "UNKNOWN"

\* _get_record_type
get_record_type(config) ==
    IF "ip_addr" \in config.fields /\ "fqdn" \in config.fields
    THEN IF AllocateIp(config) THEN "HOST" ELSE "A"
    ELSE IF "alias" \in config.fields /\ "canonical" \in config.fields
    THEN "CNAME"
    ELSE IF "network" \in config.fields
    THEN "NETWORK"
    ELSE "UNKNOWN"

\* The sort key written x['created_at'] or '1970-01-01'
CreatedAtKey_EpochDefault(x) ==
    IF x.created_at = None \/ x.created_at[1] = StrEmpty
    THEN Str_1970_01_01 ELSE x.created_at[1]

\* x['created_at'] or ''
CreatedAtKey(x) ==
    IF x.created_at = None \/ x.created_at[1] = StrEmpty
    THEN StrEmpty ELSE x.created_at[1]

\* The place of x in a list sorted by CreatedAtKey: after every element whose
\* key is not greater (the sort is stable)
SortedInsert(sorted, x) ==
    LET n == Cardinality({i \in DOMAIN sorted :
                            StrLeq(CreatedAtKey(sorted[i]), CreatedAtKey(x))})
    IN  SubSeq(sorted, 1, n) \o << x >> \o SubSeq(sorted, n + 1, Len(sorted))

RECURSIVE SortedByCreatedAt(_)
\* sorted(resources, key=lambda x: x['created_at'] or '')
SortedByCreatedAt(resources) ==
    IF resources = << >> THEN << >>
    ELSE SortedInsert(SortedByCreatedAt(SubSeq(resources, 1, Len(resources) - 1)),
                      resources[Len(resources)])

\* list_backstage_resources: the dict appended for one registry item
Projection(backstage_id, resource_info) ==
    [backstage_id |-> backstage_id,
     entity_name |-> resource_info.entity_name,
     resource_name |-> resource_info.resource_name,
     source_file |-> resource_info.source_file,
     owner |-> resource_info.owner,
     created_at |-> resource_info.created_at,
     record_type |-> get_record_type(resource_info.config)]

\* entity_filter is truthy
FilterGiven(entity_filter) == entity_filter # None /\ entity_filter[1] # StrEmpty

\* list_backstage_resources: `continue` for this item?
\* (only evaluated for an entity_name that is a string)
Skipped(entity_filter, resource_info) ==
    /\ FilterGiven(entity_filter)
    /\ ~StrContains(resource_info.entity_name[1], entity_filter[1])

\* list_backstage_resources: `entity_filter not in None` raises TypeError
ListRaises(registry, entity_filter) ==
    /\ FilterGiven(entity_filter)
    /\ \E i \in DOMAIN registry : registry[i][2].entity_name = None

RECURSIVE ListLoop(_, _, _)
\* list_backstage_resources: for backstage_id, resource_info in
\* self.backstage_resources.items(), from item i on
ListLoop(registry, entity_filter, i) ==
    IF i > Len(registry) THEN << >>
    ELSE (IF Skipped(entity_filter, registry[i][2])
          THEN << >>
          ELSE << Projection(registry[i][1], registry[i][2]) >>)
         \o ListLoop(registry, entity_filter, i + 1)

\* list_backstage_resources: [raised |-> TRUE] for an exception, else the list
list_backstage_resources(registry, entity_filter) ==
    IF ListRaises(registry, entity_filter)
    THEN [raised |-> TRUE, value |-> << >>]
    ELSE [raised |-> FALSE,
          value |-> SortedByCreatedAt(ListLoop(registry, entity_filter, 1))]

-----------------------------------------------------------------------------
(* Inputs of the merge functions *)

ResourceKeys == {"web", "api"}

\* Number of distinct BackstageId values in the inputs
NumIds == 2

IdNames ==
    << "my-app-dev-20250909120000", "old-app-dev-20250901120000",
       "svc-prod-20250101000000", "db-staging-20250202000000" >>

BackstageIds == {IdNames[i] : i \in 1..NumIds}

Strategies ==
    {"backstage-wins", "manual-protected", "timestamp-wins", "fail-on-conflict"}

IdValues == {None, Some("")} \cup {Some(b) : b \in BackstageIds}

TimeValues == {None, Some(Str_1969_12_31), Some(Str_2025_09_09)}

MergeTags ==
    {[NoTags EXCEPT !.BackstageId = b, !.CreatedAt = t] :
        b \in IdValues, t \in TimeValues}

MergeEntries == {Entry(Some(tags)) : tags \in MergeTags} \cup {Entry(None)}

\* All ordered dicts over the given keys and values
DictsOver(keys, values) ==
    LET n == Cardinality(keys)
    IN  {d \in UNION {[1..m -> keys \X values] : m \in 0..n} : IsDict(d)}

MergeDocs == DictsOver(ResourceKeys, MergeEntries)

-----------------------------------------------------------------------------
(* Specification of the two pure merge functions *)

InitMerge ==
    /\ existing \in MergeDocs
    /\ new \in MergeDocs
    /\ strategy = "backstage-wins"
    /\ conflicts = << >>
    /\ merged = << >>
    /\ called = {}
    /\ target_file = MissingFile
    /\ backstage_file = MissingFile
    /\ file_name = "a-records.yaml"
    /\ result = None
    /\ config_dir = << >>
    /\ backstage_resources = << >>
    /\ listing = None
    /\ calls = << >>
    /\ source_dir = << >>
    /\ results = None
    /\ args = None
    /\ backup_dir = None
    /\ invocations = << >>

DetectConflicts ==
    /\ called = {}
    /\ conflicts' = detect_conflicts(existing, new)
    /\ called' = {"detect_conflicts"}
    /\ UNCHANGED <<existing, new, strategy, merged, fileVars, managerVars, commandVars, runVars>>

ResolveConflicts ==
    /\ called = {}
    /\ \E s \in Strategies :
        /\ strategy' = s
        /\ merged' = resolve_conflicts(existing, new, s)
    /\ called' = {"resolve_conflicts"}
    /\ UNCHANGED <<existing, new, conflicts, fileVars, managerVars, commandVars, runVars>>

NextMerge == DetectConflicts \/ ResolveConflicts

SpecMerge == InitMerge /\ [][NextMerge]_vars

-----------------------------------------------------------------------------
(* Specification of merge_file: one call on an arbitrary target file and an  *)
(* arbitrary Backstage file                                                  *)

ConfigFiles ==
    << "a-records.yaml", "cname-records.yaml", "host-records.yaml",
       "networks.yaml", "dns-zones.yaml" >>

FileNames == {ConfigFiles[i] : i \in DOMAIN ConfigFiles} \cup {"ptr-records.yaml"}

FileEntries ==
    {Entry(Some([NoTags EXCEPT !.BackstageId = b])) : b \in IdValues}
    \cup {Entry(None)}

FileDocs == DictsOver(ResourceKeys, FileEntries)

FileContents ==
    {MissingFile, EmptyFile, MalformedFile} \cup {YamlFile(d) : d \in FileDocs}

Init ==
    /\ target_file \in FileContents
    /\ backstage_file \in FileContents
    /\ file_name \in FileNames
    /\ result = None
    /\ existing = << >>
    /\ new = << >>
    /\ strategy = "backstage-wins"
    /\ conflicts = << >>
    /\ merged = << >>
    /\ called = {}
    /\ config_dir = << >>
    /\ backstage_resources = << >>
    /\ listing = None
    /\ calls = << >>
    /\ source_dir = << >>
    /\ results = None
    /\ args = None
    /\ backup_dir = None
    /\ invocations = << >>

\* BackstageMerger.merge_file(backstage_file, strat)
MergeFile(strat) ==
    /\ result = None
    /\ strategy' = strat
    /\ LET backstage_data == load_yaml_safely(backstage_file)
           existing_data == load_yaml_safely(target_file)
           found == detect_conflicts(existing_data, backstage_data)
           merged_data == resolve_conflicts(existing_data, backstage_data, strat)
           record_type == RecordTypeLabel(file_name)
           new_keys == KeyList(backstage_data)
       IN  /\ new' = backstage_data
           /\ existing' = existing_data
           /\ IF backstage_data = << >>
              THEN /\ result' = Some(FALSE)
                   /\ UNCHANGED <<conflicts, merged, called, target_file>>
              ELSE /\ conflicts' = found
                   /\ IF FailsOnConflict(found, strat)
                      THEN /\ result' = Some(FALSE)
                           /\ called' = {"detect_conflicts"}
                           /\ UNCHANGED <<merged, target_file>>
                      ELSE /\ merged' = merged_data
                           /\ target_file' =
                                save_yaml_with_header(merged_data, record_type, new_keys)
                           /\ called' = {"detect_conflicts", "resolve_conflicts",
                                         "save_yaml_with_header"}
                           /\ result' = Some(TRUE)
    /\ UNCHANGED <<backstage_file, file_name, managerVars, commandVars, runVars>>

Next == \E strat \in Strategies : MergeFile(strat)

Spec == Init /\ [][Next]_vars

-----------------------------------------------------------------------------
(* Specification of the resource manager: an InfobloxResourceManager        *)
(* constructed over an arbitrary configuration directory whose files parse,  *)
(* then list_backstage_resources                                             *)

\* Number of entries in the configuration directory, all files together
MaxEntries == 2

RegistryIds == {IdNames[1], IdNames[2]}

\* Entries that _extract_backstage_resources indexes: with an entity and any
\* of the CreatedAt values, or with neither entity nor CreatedAt
BackstageEntries ==
    {Entry(Some([NoTags EXCEPT !.CreatedBy = Some("backstage"),
                               !.BackstageId = Some(b),
                               !.BackstageEntity = et[1],
                               !.CreatedAt = et[2],
                               !.Owner = Some("dns-team")])) :
        b \in RegistryIds,
        et \in ({Some(Str_old_app)} \X TimeValues) \cup {<<None, None>>}}

\* Entries that it passes over, one for each test an entry can fail
OtherEntries ==
    { ScalarEntry,
      Entry(None),
      Entry(Some([NoTags EXCEPT !.BackstageId = Some(IdNames[1])])),
      Entry(Some([NoTags EXCEPT !.CreatedBy = Some("terraform"),
                                !.BackstageId = Some(IdNames[1])])),
      Entry(Some([NoTags EXCEPT !.CreatedBy = Some("backstage")])),
      Entry(Some([NoTags EXCEPT !.CreatedBy = Some("backstage"),
                                !.BackstageId = Some("")])) }

RegistryEntries == BackstageEntries \cup OtherEntries

\* The places of n entries: (file, key) pairs in scanning order
SlotSeqs(n) ==
    {sl \in [1..n -> (DOMAIN ManagerConfigFiles) \X ResourceKeys] :
        \A i, j \in 1..n :
            i < j => /\ sl[i][1] <= sl[j][1]
                     /\ sl[i][1] = sl[j][1] => sl[i][2] # sl[j][2]}

\* The document of file f when entry es[i] is at place sl[i]
DocAt(sl, es, f) ==
    LET all == [i \in DOMAIN sl |-> <<sl[i][1], sl[i][2], es[i]>>]
        mine == SelectSeq(all, LAMBDA t : t[1] = f)
    IN  [i \in DOMAIN mine |-> <<mine[i][2], mine[i][3]>>]

\* The directory: the file of rank f is the one named ManagerConfigFiles[f]
ConfigDirOf(sl, es) ==
    [f \in DOMAIN ManagerConfigFiles |->
        LET doc == DocAt(sl, es, f)
        IN  IF doc = << >> THEN MissingFile ELSE YamlFile(doc)]

ListFilters == {None}

InitManager ==
    /\ \E n \in 0..MaxEntries :
        \E sl \in SlotSeqs(n) :
            \E es \in [1..n -> RegistryEntries] :
                config_dir = ConfigDirOf(sl, es)
    /\ backstage_resources = load_configurations(config_dir)
    /\ listing = None
    /\ target_file = MissingFile
    /\ backstage_file = MissingFile
    /\ file_name = "a-records.yaml"
    /\ result = None
    /\ existing = << >>
    /\ new = << >>
    /\ strategy = "backstage-wins"
    /\ conflicts = << >>
    /\ merged = << >>
    /\ called = {}
    /\ calls = << >>
    /\ source_dir = << >>
    /\ results = None
    /\ args = None
    /\ backup_dir = None
    /\ invocations = << >>

\* InfobloxResourceManager.list_backstage_resources(entity_filter)
ListResources(entity_filter) ==
    /\ listing = None
    /\ listing' = Some([filter |-> entity_filter] @@
                       list_backstage_resources(backstage_resources, entity_filter))
    /\ UNCHANGED <<config_dir, backstage_resources, mergeVars, fileVars, commandVars, runVars>>

NextManager == \E entity_filter \in ListFilters : ListResources(entity_filter)

SpecManager == InitManager /\ [][NextManager]_vars

-----------------------------------------------------------------------------
(* Vocabulary of the properties *)

\* The BackstageId of an entry, None when it has none
IdOf(value) ==
    IF value.ea_tags = None THEN None ELSE value.ea_tags[1].BackstageId

\* An entry has a non-empty BackstageId (is automation-owned)
HasId(value) == IdOf(value) \notin {None, Some("")}

\* The CreatedAt of an entry, with a missing one read as "1970-01-01"
TimeOf(value) ==
    IF value.ea_tags = None \/ value.ea_tags[1].CreatedAt = None
    THEN Str_1970_01_01
    ELSE value.ea_tags[1].CreatedAt[1]

RECURSIVE LexLeq(_, _)
\* s <= t in lexicographic order, character by character
LexLeq(s, t) ==
    IF s = << >> THEN TRUE
    ELSE IF t = << >> THEN FALSE
    ELSE IF Head(s) # Head(t) THEN Head(s) < Head(t)
    ELSE LexLeq(Tail(s), Tail(t))

SharedKeys(ex, nw) == DictKeys(ex) \cap DictKeys(nw)

ConflictsOn(k) == {i \in DOMAIN conflicts : conflicts[i].key = k}

Detected == called = {"detect_conflicts"}
Resolved(strat) == called = {"resolve_conflicts"} /\ strategy = strat

-----------------------------------------------------------------------------
(* C1: detect_conflicts(existing, new) holds exactly one conflict for each   *)
(* key present in both documents whose ids are both non-empty and differ     *)
(* (identifier-mismatch, carrying both ids) or whose existing id is          *)
(* empty/absent while the incoming id is non-empty (manual-overwrite), and   *)
(* no conflict for any other key.                                            *)
C1_DetectExactlyTheOwnershipConflicts ==
    Detected =>
        \A k \in ResourceKeys :
            IF k \in SharedKeys(existing, new)
            THEN LET e == DictGet(existing, k)
                     n == DictGet(new, k)
                 IN  IF HasId(e) /\ HasId(n) /\ IdOf(e) # IdOf(n)
                     THEN /\ Cardinality(ConflictsOn(k)) = 1
                          /\ \A i \in ConflictsOn(k) :
                                /\ conflicts[i].kind = "identifier-mismatch"
                                /\ conflicts[i].existing_id = IdOf(e)
                                /\ conflicts[i].new_id = IdOf(n)
                     ELSE IF ~HasId(e) /\ HasId(n)
                     THEN /\ Cardinality(ConflictsOn(k)) = 1
                          /\ \A i \in ConflictsOn(k) :
                                conflicts[i].kind = "manual-overwrite"
                     ELSE ConflictsOn(k) = {}
            ELSE ConflictsOn(k) = {}

\* Both kinds of conflict are reported by one call.
C1_Witness ==
    /\ Detected
    /\ \E i, j \in DOMAIN conflicts :
        /\ conflicts[i].kind = "identifier-mismatch"
        /\ conflicts[j].kind = "manual-overwrite"

(* C2: under backstage-wins every key present in both documents maps, in the *)
(* result of resolve_conflicts, to the incoming entry when the incoming      *)
(* entry has a non-empty BackstageId and to the existing entry otherwise.    *)
C2_BackstageWins ==
    Resolved("backstage-wins") =>
        \A k \in SharedKeys(existing, new) :
            /\ HasKey(merged, k)
            /\ DictGet(merged, k) =
                IF HasId(DictGet(new, k))
                THEN DictGet(new, k) ELSE DictGet(existing, k)

\* An incoming automation entry replaced a different existing automation
\* entry, and an incoming manual entry left a different existing entry alone.
C2_Witness ==
    /\ Resolved("backstage-wins")
    /\ \E k1, k2 \in SharedKeys(existing, new) :
        /\ HasId(DictGet(new, k1)) /\ HasId(DictGet(existing, k1))
        /\ DictGet(new, k1) # DictGet(existing, k1)
        /\ DictGet(merged, k1) = DictGet(new, k1)
        /\ ~HasId(DictGet(new, k2))
        /\ DictGet(new, k2) # DictGet(existing, k2)
        /\ DictGet(merged, k2) = DictGet(existing, k2)

(* C3: under manual-protected a key present in both documents keeps its      *)
(* existing entry exactly when the existing entry has no BackstageId and the *)
(* incoming entry has one; in every other combination it maps to the         *)
(* incoming entry.                                                           *)
C3_ManualProtected ==
    Resolved("manual-protected") =>
        \A k \in SharedKeys(existing, new) :
            /\ HasKey(merged, k)
            /\ DictGet(merged, k) =
                IF ~HasId(DictGet(existing, k)) /\ HasId(DictGet(new, k))
                THEN DictGet(existing, k) ELSE DictGet(new, k)

\* A manual entry was protected, and an incoming manual entry replaced an
\* automation-owned one.
C3_Witness ==
    /\ Resolved("manual-protected")
    /\ \E k1, k2 \in SharedKeys(existing, new) :
        /\ ~HasId(DictGet(existing, k1)) /\ HasId(DictGet(new, k1))
        /\ DictGet(merged, k1) = DictGet(existing, k1)
        /\ DictGet(merged, k1) # DictGet(new, k1)
        /\ HasId(DictGet(existing, k2)) /\ ~HasId(DictGet(new, k2))
        /\ DictGet(merged, k2) = DictGet(new, k2)
        /\ DictGet(merged, k2) # DictGet(existing, k2)

(* C4: under timestamp-wins a key present in both documents maps to the      *)
(* incoming entry if and only if incoming CreatedAt >= existing CreatedAt in *)
(* lexicographic order, a missing CreatedAt counting as "1970-01-01"; ties   *)
(* go to the incoming entry and BackstageId plays no part.                   *)
C4_TimestampWins ==
    Resolved("timestamp-wins") =>
        \A k \in SharedKeys(existing, new) :
            /\ HasKey(merged, k)
            /\ DictGet(merged, k) =
                IF LexLeq(TimeOf(DictGet(existing, k)), TimeOf(DictGet(new, k)))
                THEN DictGet(new, k) ELSE DictGet(existing, k)

\* An older incoming automation entry lost against a manual entry without
\* CreatedAt, and a tie between two entries without CreatedAt went to the
\* incoming one.
C4_Witness ==
    /\ Resolved("timestamp-wins")
    /\ \E k1, k2 \in SharedKeys(existing, new) :
        /\ IdOf(DictGet(existing, k1)) = None /\ HasId(DictGet(new, k1))
        /\ EaTags(DictGet(existing, k1)).CreatedAt = None
        /\ EaTags(DictGet(new, k1)).CreatedAt = Some(Str_1969_12_31)
        /\ DictGet(merged, k1) = DictGet(existing, k1)
        /\ EaTags(DictGet(existing, k2)).CreatedAt = None
        /\ EaTags(DictGet(new, k2)).CreatedAt = None
        /\ DictGet(new, k2) # DictGet(existing, k2)
        /\ DictGet(merged, k2) = DictGet(new, k2)

(* C5: for each of the four strategies, every key of the incoming document   *)
(* that is not in the existing document is in the result of                  *)
(* resolve_conflicts, mapped to the incoming entry.                          *)
C5_NewKeysAlwaysInserted ==
    called = {"resolve_conflicts"} =>
        \A k \in DictKeys(new) \ DictKeys(existing) :
            /\ HasKey(merged, k)
            /\ DictGet(merged, k) = DictGet(new, k)

\* fail-on-conflict inserted a new key next to a conflicting shared key.
C5_Witness ==
    /\ Resolved("fail-on-conflict")
    /\ \E k \in DictKeys(new) \ DictKeys(existing) :
        DictGet(merged, k) = DictGet(new, k)
    /\ \E k \in SharedKeys(existing, new) :
        ~HasId(DictGet(existing, k)) /\ HasId(DictGet(new, k))

(* C6: a conflict is fatal only under fail-on-conflict: when merge_file     *)
(* loads a non-empty incoming document and detects at least one conflict, it *)
(* returns False without calling resolve_conflicts and without writing the   *)
(* target file if the strategy is fail-on-conflict, and under each other     *)
(* strategy it resolves, writes the target file and returns True.            *)
C6_ConflictFatalOnlyUnderFailOnConflict ==
    [][ (result = None /\ result' # None /\ new' # << >> /\ conflicts' # << >>) =>
            IF strategy' = "fail-on-conflict"
            THEN /\ result' = Some(FALSE)
                 /\ "resolve_conflicts" \notin called'
                 /\ "save_yaml_with_header" \notin called'
                 /\ target_file' = target_file
            ELSE /\ result' = Some(TRUE)
                 /\ "resolve_conflicts" \in called'
                 /\ "save_yaml_with_header" \in called'
                 /\ target_file'.exists
                 /\ target_file' # target_file
                 /\ load_yaml_safely(target_file') = merged'
      ]_vars

\* merge_file gave up on two conflicts under fail-on-conflict and left a
\* non-empty target file as it was.
C6_Witness ==
    /\ result = Some(FALSE)
    /\ strategy = "fail-on-conflict"
    /\ Len(conflicts) = 2
    /\ called = {"detect_conflicts"}
    /\ target_file = YamlFile(existing)

(* C7: a merge never drops existing resources: for every strategy the keys   *)
(* of resolve_conflicts(existing, new) are the keys of existing together     *)
(* with the keys of new, every key that is only in existing keeps its entry, *)
(* and after a successful merge_file the target file holds every key it held *)
(* before the merge and every incoming key.                                  *)
C7_MergeNeverDropsKeys ==
    result # None =>
        /\ \A strat \in Strategies :
            LET m == resolve_conflicts(existing, new, strat)
            IN  /\ IsDict(m)
                /\ DictKeys(m) = DictKeys(existing) \cup DictKeys(new)
                /\ \A k \in DictKeys(existing) \ DictKeys(new) :
                        DictGet(m, k) = DictGet(existing, k)
        /\ result = Some(TRUE) =>
            LET after == load_yaml_safely(target_file)
            IN  /\ DictKeys(after) = DictKeys(existing) \cup DictKeys(new)
                /\ \A k \in DictKeys(existing) \ DictKeys(new) :
                        DictGet(after, k) = DictGet(existing, k)

\* A successful merge of a document with one new key into a target file that
\* held one other key.
C7_Witness ==
    /\ result = Some(TRUE)
    /\ DictKeys(existing) \ DictKeys(new) # {}
    /\ DictKeys(new) \ DictKeys(existing) # {}
    /\ DictKeys(load_yaml_safely(target_file)) = ResourceKeys

-----------------------------------------------------------------------------
(* Vocabulary of the registry properties *)

\* Every top-level entry of the configuration directory, with its place in
\* the scanning order: the file's rank, then the rank in the document
DirEntries ==
    UNION {
        LET d == config_dir[f].data
        IN  {[file |-> ManagerConfigFiles[f], key |-> d[i][1], value |-> d[i][2],
              rank |-> <<f, i>>] : i \in DOMAIN d}
        : f \in DOMAIN ManagerConfigFiles }

\* CreatedBy is "backstage" and BackstageId is non-empty
Qualifies(value) ==
    /\ IsMapping(value)
    /\ value.ea_tags # None
    /\ value.ea_tags[1].CreatedBy = Some("backstage")
    /\ value.ea_tags[1].BackstageId \notin {None, Some("")}

Qualifying == {x \in DirEntries : Qualifies(x.value)}

IdIn(x) == x.value.ea_tags[1].BackstageId[1]

ScannedBefore(x, y) ==
    \/ x.rank[1] < y.rank[1]
    \/ x.rank[1] = y.rank[1] /\ x.rank[2] < y.rank[2]

\* The record describes the entry x
RecordOf(record, x) ==
    /\ record.resource_name = x.key
    /\ record.source_file = x.file
    /\ record.config = x.value
    /\ record.entity_name = x.value.ea_tags[1].BackstageEntity
    /\ record.created_at = x.value.ea_tags[1].CreatedAt
    /\ record.owner = x.value.ea_tags[1].Owner

(* C8: the registry built over the configuration files indexes exactly the   *)
(* entries whose CreatedBy is "backstage" and whose BackstageId is           *)
(* non-empty, keyed by that identifier; no other entry contributes a record, *)
(* and each record carries the key, entity, source file, entry, CreatedAt    *)
(* and Owner of such an entry.                                               *)
C8_RegistryIndexesBackstageEntries ==
    LET qualifying == Qualifying
    IN  /\ DictKeys(backstage_resources) = {IdIn(x) : x \in qualifying}
        /\ \A i \in DOMAIN backstage_resources :
                \E x \in qualifying :
                    /\ IdIn(x) = backstage_resources[i][1]
                    /\ RecordOf(backstage_resources[i][2], x)

\* One entry is indexed while an entry that carries a BackstageId but no
\* CreatedBy is not.
C8_Witness ==
    /\ Len(backstage_resources) = 1
    /\ \E x \in DirEntries \ Qualifying :
        /\ IsMapping(x.value)
        /\ x.value.ea_tags # None
        /\ x.value.ea_tags[1].CreatedBy = None
        /\ x.value.ea_tags[1].BackstageId \notin {None, Some("")}
        /\ x.value.ea_tags[1].BackstageId[1] \notin DictKeys(backstage_resources)

(* C9: when a BackstageId is carried by several qualifying entries the       *)
(* registry holds exactly one record for it, that of the entry scanned last  *)
(* (files in the order a-records, cname-records, host-records, networks,     *)
(* dns-zones, entries in document order).                                    *)
C9_LastScannedWins ==
    LET qualifying == Qualifying
    IN  /\ IsDict(backstage_resources)
        /\ \A i \in DOMAIN backstage_resources :
                LET same == {x \in qualifying : IdIn(x) = backstage_resources[i][1]}
                IN  \E x \in same :
                        /\ \A y \in same : y = x \/ ScannedBefore(y, x)
                        /\ RecordOf(backstage_resources[i][2], x)

\* Two different qualifying entries in two files carry the same identifier.
C9_Witness ==
    /\ Len(backstage_resources) = 1
    /\ \E x, y \in Qualifying :
        /\ IdIn(x) = IdIn(y)
        /\ x.file # y.file
        /\ x.value # y.value
        /\ ScannedBefore(x, y)
        /\ RecordOf(backstage_resources[1][2], y)

\* The sort key of a list item: its created_at, the empty string when absent
ListedKey(item) == IF item.created_at = None THEN << >> ELSE item.created_at[1]

(* C10: list_backstage_resources() returns one projection per registry       *)
(* record, in ascending order of created_at compared as strings, an absent   *)
(* CreatedAt counting as the empty string, so that records without CreatedAt *)
(* come before every record that has one.                                    *)
C10_ListSortedByCreatedAt ==
    (listing # None /\ listing[1].filter = None) =>
        LET items == listing[1].value
        IN  /\ ~listing[1].raised
            /\ Len(items) = Len(backstage_resources)
            /\ \A id \in DictKeys(backstage_resources) :
                \E i \in DOMAIN items :
                    LET r == DictGet(backstage_resources, id)
                    IN  /\ items[i].backstage_id = id
                        /\ items[i].resource_name = r.resource_name
                        /\ items[i].entity_name = r.entity_name
                        /\ items[i].source_file = r.source_file
                        /\ items[i].owner = r.owner
                        /\ items[i].created_at = r.created_at
            /\ \A i, j \in DOMAIN items :
                i < j => /\ LexLeq(ListedKey(items[i]), ListedKey(items[j]))
                         /\ items[j].created_at = None => items[i].created_at = None

\* The list puts a record without CreatedAt, second in the registry, before
\* a record with a CreatedAt.
C10_Witness ==
    /\ listing # None
    /\ Len(listing[1].value) = 2
    /\ listing[1].value[1].created_at = None
    /\ listing[1].value[2].created_at # None
    /\ listing[1].value[1].backstage_id = backstage_resources[2][1]

-----------------------------------------------------------------------------
(* InfobloxResourceManager.find_resources_by_entity, and the specification   *)
(* of the two queries: a manager constructed over an arbitrary directory,    *)
(* then list_backstage_resources with a filter and find_resources_by_entity  *)

\* find_resources_by_entity: the comprehension over list_backstage_resources()
find_resources_by_entity(registry, entity_name) ==
    SelectSeq(list_backstage_resources(registry, None).value,
              LAMBDA resource : resource.entity_name = Some(entity_name))

\* The entity names of the entries: "old-app", "old-ap", or no BackstageEntity
QueryEntities == {None, Some(Str_old_app), Some(Str_old_ap)}

QueryEntries ==
    {Entry(Some([NoTags EXCEPT !.CreatedBy = Some("backstage"),
                               !.BackstageId = Some(b),
                               !.BackstageEntity = e,
                               !.CreatedAt = t])) :
        b \in RegistryIds, e \in QueryEntities, t \in TimeValues}

\* Entries in a-records.yaml and cname-records.yaml only
QuerySlotSeqs(n) == {sl \in SlotSeqs(n) : \A i \in 1..n : sl[i][1] \in {1, 2}}

\* list --entity: absent, empty, "old-ap", "old-app"
QueryFilters == {None, Some(StrEmpty), Some(Str_old_ap), Some(Str_old_app)}

QueryNames == {Str_old_ap, Str_old_app}

InitQuery ==
    /\ \E n \in 0..MaxEntries :
        \E sl \in QuerySlotSeqs(n) :
            \E es \in [1..n -> QueryEntries] :
                config_dir = ConfigDirOf(sl, es)
    /\ backstage_resources = load_configurations(config_dir)
    /\ listing = None
    /\ target_file = MissingFile
    /\ backstage_file = MissingFile
    /\ file_name = "a-records.yaml"
    /\ result = None
    /\ existing = << >>
    /\ new = << >>
    /\ strategy = "backstage-wins"
    /\ conflicts = << >>
    /\ merged = << >>
    /\ called = {}
    /\ calls = << >>
    /\ source_dir = << >>
    /\ results = None
    /\ args = None
    /\ backup_dir = None
    /\ invocations = << >>

\* InfobloxResourceManager.find_resources_by_entity(entity_name)
FindResourcesByEntity(entity_name) ==
    /\ \A c \in DOMAIN calls :
            calls[c].name = "InfobloxResourceManager" /\ ~calls[c].raised
    /\ calls' = Append(calls,
                       [name |-> "find_resources_by_entity",
                        args |-> << entity_name >>,
                        raised |-> FALSE,
                        returned |-> find_resources_by_entity(backstage_resources,
                                                              entity_name)])
    /\ UNCHANGED <<mergeVars, fileVars, managerVars, source_dir, results, args, runVars>>

NextQuery ==
    \/ \E entity_filter \in QueryFilters : ListResources(entity_filter)
    \/ \E entity_name \in QueryNames : FindResourcesByEntity(entity_name)

SpecQuery == InitQuery /\ [][NextQuery]_vars

-----------------------------------------------------------------------------
(* Vocabulary of the query properties *)

\* The registry records (by rank) whose entity_name contains / equals s
RecordsContaining(s) ==
    {i \in DOMAIN backstage_resources :
        /\ backstage_resources[i][2].entity_name # None
        /\ \E k \in 0..Len(backstage_resources[i][2].entity_name[1]) :
            \E m \in 0..Len(backstage_resources[i][2].entity_name[1]) :
                /\ k + Len(s) + m = Len(backstage_resources[i][2].entity_name[1])
                /\ \A j \in 1..Len(s) :
                    backstage_resources[i][2].entity_name[1][k + j] = s[j]}

RecordsNamed(s) ==
    {i \in DOMAIN backstage_resources :
        backstage_resources[i][2].entity_name = Some(s)}

\* The items are one projection for each of the records, and nothing else
ItemsAre(items, records) ==
    /\ Len(items) = Cardinality(records)
    /\ \A i \in records :
        \E k \in DOMAIN items :
            /\ items[k].backstage_id = backstage_resources[i][1]
            /\ items[k].entity_name = backstage_resources[i][2].entity_name
            /\ items[k].resource_name = backstage_resources[i][2].resource_name
            /\ items[k].source_file = backstage_resources[i][2].source_file

(* C11: list_backstage_resources(entity_filter) with a non-empty filter      *)
(* returns exactly the registry records whose entity_name contains the       *)
(* filter as a substring; with no filter or an empty filter it returns every *)
(* registry record.                                                          *)
C11_ListFilterIsSubstring ==
    listing # None =>
        /\ ~listing[1].raised
        /\ ItemsAre(listing[1].value,
                    IF listing[1].filter \in {None, Some(StrEmpty)}
                    THEN DOMAIN backstage_resources
                    ELSE RecordsContaining(listing[1].filter[1]))

\* The records (by rank) whose entity_name has s as a strict substring
RecordsStrictlyContaining(s) == RecordsContaining(s) \ RecordsNamed(s)

\* t is s without some of its elements
IsSubsequence(t, s) ==
    \E pick \in SUBSET (DOMAIN s) :
        /\ Cardinality(pick) = Len(t)
        /\ \A k \in DOMAIN t :
            \E i \in pick :
                /\ Cardinality({j \in pick : j <= i}) = k
                /\ s[i] = t[k]

(* C12: find_resources_by_entity(name) returns exactly the registry records  *)
(* whose entity_name equals name, in the created_at order of                 *)
(* list_backstage_resources(); a record whose entity_name strictly contains  *)
(* name is not found by it, while list_backstage_resources(name) does return *)
(* that record.                                                              *)
C12_FindIsExactMatch ==
    \A c \in DOMAIN calls :
        calls[c].name = "find_resources_by_entity" =>
            LET name == calls[c].args[1]
                found == calls[c].returned
            IN  /\ ~calls[c].raised
                /\ ItemsAre(found, RecordsNamed(name))
                /\ \A i, j \in DOMAIN found :
                    i < j => LexLeq(ListedKey(found[i]), ListedKey(found[j]))
                /\ (listing # None /\ listing[1].filter = None) =>
                        IsSubsequence(found, listing[1].value)
                /\ \A i \in RecordsStrictlyContaining(name) :
                    /\ \A k \in DOMAIN found :
                        found[k].backstage_id # backstage_resources[i][1]
                    /\ (listing # None /\ listing[1].filter = Some(name)) =>
                        /\ ~listing[1].raised
                        /\ \E k \in DOMAIN listing[1].value :
                            listing[1].value[k].backstage_id =
                                backstage_resources[i][1]

-----------------------------------------------------------------------------
(* Specification of the functions that depend on their arguments only: each  *)
(* is called once, on arguments drawn from the sets below                    *)

\* No merge is under way and no manager has been constructed
Idle ==
    /\ existing = << >>
    /\ new = << >>
    /\ strategy = "backstage-wins"
    /\ conflicts = << >>
    /\ merged = << >>
    /\ called = {}
    /\ target_file = MissingFile
    /\ backstage_file = MissingFile
    /\ file_name = "a-records.yaml"
    /\ result = None
    /\ config_dir = << >>
    /\ backstage_resources = << >>
    /\ listing = None
    /\ source_dir = << >>
    /\ results = None

\* A call that returned
Returned(name, arguments, value) ==
    [name |-> name, args |-> arguments, raised |-> FALSE, returned |-> value]

\* The configs given to _get_record_type: any of the five fields it looks
\* for, allocate_ip absent or any of these literals
RecordConfigs ==
    [ea_tags : {None},
     fields : SUBSET {"ip_addr", "fqdn", "alias", "canonical", "network"},
     allocate_ip : {None} \cup
        {Some(l) : l \in {"None", "True", "False", "0", "1", "''", "'yes'"}}]

\* InfobloxResourceManager._get_record_type(config)
GetRecordType(config) ==
    /\ calls = << >>
    /\ calls' = << Returned("_get_record_type", << config >>,
                            get_record_type(config)) >>
    /\ UNCHANGED <<mergeVars, fileVars, managerVars, source_dir, results, args, runVars>>

-----------------------------------------------------------------------------
(* InfobloxResourceManager.generate_cleanup_config *)

\* _get_terraform_resource_name with the types of host and A records swapped
TerraformResourceType_HostIsA(source_file) ==
    CASE source_file = "a-records.yaml" -> "infoblox_host_record"
      [] source_file = "cname-records.yaml" -> "infoblox_cname_record"
      [] source_file = "host-records.yaml" -> "infoblox_a_record"
      [] source_file = "networks.yaml" -> "infoblox_network"
      [] source_file = "dns-zones.yaml" -> "infoblox_zone_auth"
      [] OTHER -> "unknown"

\* _get_terraform_resource_name: resource_type_map.get(source_file, 'unknown')
TerraformResourceType(source_file) ==
    CASE source_file = "a-records.yaml" -> "infoblox_a_record"
      [] source_file = "cname-records.yaml" -> "infoblox_cname_record"
      [] source_file = "host-records.yaml" -> "infoblox_host_record"
      [] source_file = "networks.yaml" -> "infoblox_network"
      [] source_file = "dns-zones.yaml" -> "infoblox_zone_auth"
      [] OTHER -> "unknown"

\* _get_terraform_resource_name: f"{resource_type}.{resource_name}"
get_terraform_resource_name(source_file, resource_name) ==
    TerraformResourceType(source_file) \o "." \o resource_name

\* generate_cleanup_config that looks every requested identifier up
InRegistry_NotTested(registry, backstage_id) == TRUE

\* generate_cleanup_config: `if backstage_id in self.backstage_resources`
InRegistry(registry, backstage_id) == HasKey(registry, backstage_id)

\* generate_cleanup_config: the dict appended for an identifier
CleanupItem(registry, backstage_id) ==
    LET resource_info == DictGet(registry, backstage_id)
    IN  [backstage_id |-> backstage_id,
         resource_name |-> resource_info.resource_name,
         source_file |-> resource_info.source_file,
         terraform_resource |->
            get_terraform_resource_name(resource_info.source_file,
                                        resource_info.resource_name)]

RECURSIVE CleanupLoop(_, _, _)
\* generate_cleanup_config: for backstage_id in backstage_ids, from i on
CleanupLoop(registry, backstage_ids, i) ==
    IF i > Len(backstage_ids) THEN << >>
    ELSE (IF InRegistry(registry, backstage_ids[i])
          THEN << CleanupItem(registry, backstage_ids[i]) >>
          ELSE << >>)
         \o CleanupLoop(registry, backstage_ids, i + 1)

\* generate_cleanup_config: self.backstage_resources[backstage_id] raises
\* KeyError for an identifier that is not a key
generate_cleanup_config(registry, backstage_ids) ==
    IF \E i \in DOMAIN backstage_ids :
            /\ InRegistry(registry, backstage_ids[i])
            /\ ~HasKey(registry, backstage_ids[i])
    THEN [name |-> "generate_cleanup_config", args |-> << backstage_ids >>,
          raised |-> TRUE, returned |-> << >>]
    ELSE Returned("generate_cleanup_config", << backstage_ids >>,
                  [resources_to_remove |-> CleanupLoop(registry, backstage_ids, 1),
                   terraform_commands |-> << >>])

\* InfobloxResourceManager._get_terraform_resource_name(source_file, name)
GetTerraformResourceName(source_file, resource_name) ==
    /\ calls = << >>
    /\ calls' = << Returned("_get_terraform_resource_name",
                            << source_file, resource_name >>,
                            get_terraform_resource_name(source_file,
                                                        resource_name)) >>
    /\ UNCHANGED <<mergeVars, fileVars, managerVars, source_dir, results, args, runVars>>

-----------------------------------------------------------------------------
(* InfobloxResourceManager.validate_backstage_id_format.  The identifier is  *)
(* a sequence of character codes; the inputs are ASCII, where \d is 0-9.     *)

\* (?:dev|staging|prod)
Environments == {<<100, 101, 118>>, <<115, 116, 97, 103, 105, 110, 103>>, <<112, 114, 111, 100>>}

\* The pattern between ^ and $: [a-z0-9-]+-(?:dev|staging|prod)-\d{14}
\* matches the whole of t
MatchesPattern(t) ==
    \E env \in Environments :
        LET n == Len(t)
            k == n - 14 - 1 - Len(env) - 1
        IN  /\ k >= 1
            /\ \A i \in 1..k : t[i] \in (97..122) \cup (48..57) \cup {45}
            /\ t[k + 1] = 45
            /\ SubSeq(t, k + 2, k + 1 + Len(env)) = env
            /\ t[k + 2 + Len(env)] = 45
            /\ \A i \in (n - 13)..n : t[i] \in 48..57

\* The positions where $ matches: the end of the string, and just before a
\* newline that is the last character
DollarPositions(backstage_id) ==
    {Len(backstage_id)} \cup
    (IF backstage_id # << >> /\ backstage_id[Len(backstage_id)] = 10
     THEN {Len(backstage_id) - 1} ELSE {})

\* validate_backstage_id_format: bool(re.match(pattern, backstage_id))
validate_backstage_id_format(backstage_id) ==
    \E e \in DollarPositions(backstage_id) :
        MatchesPattern(SubSeq(backstage_id, 1, e))

\* The identifiers given to validate_backstage_id_format: characters before,
\* an entity, a separator, an environment, a separator, a timestamp and
\* characters after, each well formed or not
IdParts ==
    {<<>>, <<32>>, <<10>>}
    \X {<<109, 121, 45, 97, 112, 112>>,
                <<97>>,
                <<>>,
                <<77, 121, 45, 97, 112, 112>>,
                <<109, 121, 95, 97, 112, 112>>,
                <<45>>,
                <<97, 112, 112, 50, 45, 100, 101, 118>>}
    \X {<<45>>, <<95>>, <<>>}
    \X {<<100, 101, 118>>,
                <<115, 116, 97, 103, 105, 110, 103>>,
                <<112, 114, 111, 100>>,
                <<116, 101, 115, 116>>,
                <<68, 69, 86>>,
                <<>>}
    \X {<<45>>, <<>>}
    \X {<<50, 48, 50, 53, 48, 57, 48, 57, 49, 50, 48, 48, 48, 48>>,
                <<50, 48, 50, 53, 48, 57, 48, 57, 49, 50, 48, 48, 48>>,
                <<50, 48, 50, 53, 48, 57, 48, 57, 49, 50, 48, 48, 48, 48, 48>>,
                <<>>,
                <<50, 48, 50, 53, 48, 57, 48, 57, 49, 50, 48, 48, 48, 97>>}
    \X {<<>>, <<10>>, <<10, 10>>, <<32>>, <<120>>}

IdString(parts) ==
    parts[1] \o parts[2] \o parts[3] \o parts[4] \o parts[5] \o parts[6] \o parts[7]

\* InfobloxResourceManager.validate_backstage_id_format(backstage_id)
ValidateBackstageIdFormat(backstage_id) ==
    /\ calls = << >>
    /\ calls' = << Returned("validate_backstage_id_format", << backstage_id >>,
                            validate_backstage_id_format(backstage_id)) >>
    /\ UNCHANGED <<mergeVars, fileVars, managerVars, source_dir, results, args, runVars>>

\* The arguments of each function
FunctionArgs ==
    [config : RecordConfigs]
    \cup [source_file : FileNames, resource_name : ResourceKeys]
    \cup {[backstage_id |-> IdString(parts)] : parts \in IdParts}

InitFunctions ==
    /\ Idle
    /\ calls = << >>
    /\ args \in FunctionArgs
    /\ backup_dir = None
    /\ invocations = << >>

NextFunctions ==
    \/ "config" \in DOMAIN args /\ GetRecordType(args.config)
    \/ /\ "source_file" \in DOMAIN args
       /\ GetTerraformResourceName(args.source_file, args.resource_name)
    \/ /\ "backstage_id" \in DOMAIN args
       /\ ValidateBackstageIdFormat(args.backstage_id)

SpecFunctions == InitFunctions /\ [][NextFunctions]_vars

-----------------------------------------------------------------------------
(* InfobloxResourceManager.remove_backstage_resource, and the specification  *)
(* of the commands that act on a registry: a manager constructed over an     *)
(* arbitrary directory, then generate_cleanup_config or a few                *)
(* remove_backstage_resource                                                 *)

\* del data[resource_name] that also drops the keys after it
DictDelete_Truncates(d, k) ==
    SubSeq(d, 1, (CHOOSE i \in DOMAIN d : d[i][1] = k) - 1)

\* del d[k] for a key that is present
DictDelete(d, k) == SelectSeq(d, LAMBDA item : item[1] # k)

\* yaml.dump(data, f, default_flow_style=False, sort_keys=False): the file
\* holds the document and no comment ("{}" for the empty dict)
DumpedFile(data) ==
    [exists |-> TRUE, comments |-> << >>, parse |-> "mapping", data |-> data]

\* main: exit status 0 whatever remove says
RemoveExitStatus_AlwaysZero(success) == 0

\* main: sys.exit(1) if not success
RemoveExitStatus(success) == IF success THEN 0 ELSE 1

\* open(file_path, 'r') of a missing file and yaml.safe_load of a malformed
\* one raise
OpenOrLoadRaises(file) == ~file.exists \/ file.parse = "error"

\* remove_backstage_resource: the directory it leaves and how the call ended
remove_backstage_resource(registry, dir, backstage_id) ==
    LET done(after, raised, success) ==
            [config_dir |-> after,
             call |-> [name |-> "remove_backstage_resource",
                       args |-> << backstage_id >>,
                       raised |-> raised,
                       returned |-> success,
                       exit_status |-> RemoveExitStatus(success)]]
    IN  IF ~InRegistry(registry, backstage_id)
        THEN done(dir, FALSE, FALSE)
        ELSE IF ~HasKey(registry, backstage_id)
        THEN done(dir, TRUE, FALSE)     \* KeyError
        ELSE LET resource_info == DictGet(registry, backstage_id)
                 source_file == resource_info.source_file
                 resource_name == resource_info.resource_name
                 f == CHOOSE f \in DOMAIN ManagerConfigFiles :
                            ManagerConfigFiles[f] = source_file
                 data == SafeLoadOrEmpty(dir[f])
             IN  IF OpenOrLoadRaises(dir[f])
                 THEN done(dir, TRUE, FALSE)
                 ELSE IF HasKey(data, resource_name)
                 THEN done([dir EXCEPT ![f] =
                                DumpedFile(DictDelete(data, resource_name))],
                           FALSE, TRUE)
                 ELSE done(dir, FALSE, FALSE)

\* Number of remove_backstage_resource calls on one manager
MaxRemoves == 2

\* The entries of the directory: one for each identifier, and a manual one
CleanupEntries ==
    {Entry(Some([NoTags EXCEPT !.CreatedBy = Some("backstage"),
                               !.BackstageId = Some(b),
                               !.BackstageEntity = Some(Str_old_app)])) :
        b \in RegistryIds}
    \cup {Entry(None)}

\* The identifiers asked for: those of the entries and one that no entry has
RequestedIds == RegistryIds \cup {IdNames[3]}

InitCleanup ==
    /\ \E n \in 0..MaxEntries :
        \E sl \in SlotSeqs(n) :
            \E es \in [1..n -> CleanupEntries] :
                config_dir = ConfigDirOf(sl, es)
    /\ backstage_resources = load_configurations(config_dir)
    /\ listing = None
    /\ target_file = MissingFile
    /\ backstage_file = MissingFile
    /\ file_name = "a-records.yaml"
    /\ result = None
    /\ existing = << >>
    /\ new = << >>
    /\ strategy = "backstage-wins"
    /\ conflicts = << >>
    /\ merged = << >>
    /\ called = {}
    /\ calls = << >>
    /\ source_dir = << >>
    /\ results = None
    /\ args = None
    /\ backup_dir = None
    /\ invocations = << >>

\* InfobloxResourceManager.generate_cleanup_config(backstage_ids)
GenerateCleanupConfig(backstage_ids) ==
    /\ \A c \in DOMAIN calls :
            /\ calls[c].name \in {"InfobloxResourceManager",
                                  "find_resources_by_entity"}
            /\ ~calls[c].raised
    /\ calls' = Append(calls,
                       generate_cleanup_config(backstage_resources, backstage_ids))
    /\ UNCHANGED <<mergeVars, fileVars, managerVars, source_dir, results, args, runVars>>

\* InfobloxResourceManager.remove_backstage_resource(backstage_id)
RemoveBackstageResource(backstage_id) ==
    /\ Len(calls) < MaxRemoves
    /\ \A c \in DOMAIN calls : calls[c].name = "remove_backstage_resource"
    /\ LET removal == remove_backstage_resource(backstage_resources, config_dir,
                                                backstage_id)
       IN  /\ config_dir' = removal.config_dir
           /\ calls' = Append(calls, removal.call)
    /\ UNCHANGED <<mergeVars, fileVars, backstage_resources, listing,
                   source_dir, results, args, runVars>>

NextCleanup ==
    \/ \E n \in 0..MaxEntries :
        \E backstage_ids \in [1..n -> RequestedIds] :
            GenerateCleanupConfig(backstage_ids)
    \/ \E backstage_id \in RequestedIds : RemoveBackstageResource(backstage_id)
    \/ \E source_file \in FileNames, resource_name \in ResourceKeys :
            GetTerraformResourceName(source_file, resource_name)

SpecCleanup == InitCleanup /\ [][NextCleanup]_vars

-----------------------------------------------------------------------------
(* Specification of load_yaml_safely: one call on the target file or on the  *)
(* Backstage file of a merge, whatever they hold                             *)

\* load_yaml_safely without its except clause
Caught_Nothing(error) == FALSE

\* load_yaml_safely: except yaml.YAMLError
Caught(error) == error = "yaml.YAMLError"

\* Does the call raise?  yaml.safe_load raises yaml.YAMLError on a file with
\* a syntax error; file_path.exists() keeps open() from a missing file.
load_yaml_safely_raises(file) ==
    file.exists /\ StripEnvironment(file).parse = "error" /\ ~Caught("yaml.YAMLError")

\* BackstageMerger.load_yaml_safely(file_path), file_path being the target
\* file or the Backstage file
LoadYamlSafely(file_path) ==
    /\ calls = << >>
    /\ LET file == IF file_path = "target_file" THEN target_file ELSE backstage_file
       IN  calls' = << [name |-> "load_yaml_safely",
                        args |-> << file_path >>,
                        raised |-> load_yaml_safely_raises(file),
                        returned |-> IF load_yaml_safely_raises(file)
                                     THEN << >> ELSE load_yaml_safely(file)] >>
    /\ UNCHANGED <<mergeVars, fileVars, managerVars, source_dir, results, args, runVars>>

NextLoad == \E file_path \in {"target_file", "backstage_file"} : LoadYamlSafely(file_path)

SpecLoad == Init /\ [][NextLoad]_vars

-----------------------------------------------------------------------------
(* BackstageMerger.merge_all_files, and the specification of the workflow:   *)
(* merge_all_files from a source directory into the target directory, then   *)
(* an InfobloxResourceManager constructed over the target directory,         *)
(* find_resources_by_entity and generate_cleanup_config for what it found    *)

\* merge_file: the target file it leaves and the value it returns
merge_file(backstage, target, name, strat) ==
    LET backstage_data == load_yaml_safely(backstage)
        existing_data == load_yaml_safely(target)
        found == detect_conflicts(existing_data, backstage_data)
        merged_data == resolve_conflicts(existing_data, backstage_data, strat)
    IN  IF backstage_data = << >>
        THEN [target_file |-> target, result |-> "False"]
        ELSE IF FailsOnConflict(found, strat)
        THEN [target_file |-> target, result |-> "False"]
        ELSE [target_file |->
                save_yaml_with_header(merged_data, RecordTypeLabel(name),
                                      KeyList(backstage_data)),
              result |-> "True"]

RECURSIVE MergeAllLoop_StopsOnFailure(_, _, _, _)
\* A loop that gives up at the first file whose merge fails
MergeAllLoop_StopsOnFailure(source, target, strat, i) ==
    IF i > Len(ConfigFiles) THEN [target_dir |-> target, results |-> << >>]
    ELSE LET one == IF source[i].exists
                    THEN merge_file(source[i], target[i], ConfigFiles[i], strat)
                    ELSE [target_file |-> target[i], result |-> "None"]
             rest == IF one.result = "False"
                     THEN [target_dir |-> target,
                           results |-> [k \in 1..(Len(ConfigFiles) - i) |-> "None"]]
                     ELSE MergeAllLoop_StopsOnFailure(source,
                            [target EXCEPT ![i] = one.target_file], strat, i + 1)
         IN  [target_dir |-> rest.target_dir,
              results |-> << one.result >> \o rest.results]

RECURSIVE MergeAllLoop(_, _, _, _)
\* merge_all_files: for file_name in backstage_files, from file i on; the
\* target directory it leaves and results, file by file
MergeAllLoop(source, target, strat, i) ==
    IF i > Len(ConfigFiles) THEN [target_dir |-> target, results |-> << >>]
    ELSE LET one == IF source[i].exists
                    THEN merge_file(source[i], target[i], ConfigFiles[i], strat)
                    ELSE [target_file |-> target[i], result |-> "None"]
             rest == MergeAllLoop(source, [target EXCEPT ![i] = one.target_file],
                                  strat, i + 1)
         IN  [target_dir |-> rest.target_dir,
              results |-> << one.result >> \o rest.results]

merge_all_files(source, target, strat) == MergeAllLoop(source, target, strat, 1)

\* _load_configurations has no except clause: yaml.safe_load raises on a file
\* with a syntax error
load_configurations_raises(dir) ==
    \E f \in DOMAIN dir : dir[f].exists /\ dir[f].parse = "error"

\* The incoming entries: tagged CreatedBy backstage with one of the
\* identifiers, or carrying an identifier and no CreatedBy
IncomingEntries ==
    {Entry(Some([NoTags EXCEPT !.CreatedBy = Some("backstage"),
                               !.BackstageId = Some(b),
                               !.BackstageEntity = Some(Str_old_app)])) :
        b \in RegistryIds}
    \cup {Entry(Some([NoTags EXCEPT !.BackstageId = Some(IdNames[1])]))}

\* The entries of the target directory: a manual one, and one that Backstage
\* created for another entity
TargetEntries ==
    {Entry(None),
     Entry(Some([NoTags EXCEPT !.CreatedBy = Some("backstage"),
                               !.BackstageId = Some(IdNames[1]),
                               !.BackstageEntity = Some(Str_old_ap)]))}

\* Both directories hold entries in a-records.yaml and cname-records.yaml;
\* a-records.yaml or host-records.yaml of the target may have a syntax error
InitWorkflow ==
    /\ \E n \in 0..MaxEntries :
        \E sl \in QuerySlotSeqs(n) :
            \E es \in [1..n -> IncomingEntries] :
                source_dir = ConfigDirOf(sl, es)
    /\ \E n \in 0..MaxEntries :
        \E sl \in QuerySlotSeqs(n) :
            \E es \in [1..n -> TargetEntries] :
                \E malformed \in SUBSET {1, 3} :
                    /\ Cardinality(malformed) <= 1
                    /\ config_dir =
                        [f \in DOMAIN ManagerConfigFiles |->
                            IF f \in malformed THEN MalformedFile
                            ELSE ConfigDirOf(sl, es)[f]]
    /\ backstage_resources = << >>
    /\ listing = None
    /\ target_file = MissingFile
    /\ backstage_file = MissingFile
    /\ file_name = "a-records.yaml"
    /\ result = None
    /\ existing = << >>
    /\ new = << >>
    /\ strategy = "backstage-wins"
    /\ conflicts = << >>
    /\ merged = << >>
    /\ called = {}
    /\ calls = << >>
    /\ results = None
    /\ args = None
    /\ backup_dir = None
    /\ invocations = << >>

\* BackstageMerger.merge_all_files(source_dir, strat), the target directory
\* being the directory the manager is given
MergeAllFiles(strat) ==
    /\ results = None
    /\ LET done == merge_all_files(source_dir, config_dir, strat)
       IN  /\ config_dir' = done.target_dir
           /\ results' = done.results
    /\ strategy' = strat
    /\ UNCHANGED <<existing, new, conflicts, merged, called, fileVars,
                   backstage_resources, listing, calls, source_dir, args, runVars>>

\* InfobloxResourceManager(config_path)
ConstructManager ==
    /\ results # None
    /\ calls = << >>
    /\ backstage_resources' =
            IF load_configurations_raises(config_dir) THEN << >>
            ELSE load_configurations(config_dir)
    /\ calls' = << [name |-> "InfobloxResourceManager", args |-> << >>,
                    raised |-> load_configurations_raises(config_dir),
                    returned |-> None] >>
    /\ UNCHANGED <<mergeVars, fileVars, config_dir, listing, source_dir,
                   results, args, runVars>>

NextWorkflow ==
    \/ \E strat \in Strategies : MergeAllFiles(strat)
    \/ ConstructManager
    \/ calls # << >> /\ FindResourcesByEntity(Str_old_app)
    \/ \E c \in DOMAIN calls :
        /\ calls[c].name = "find_resources_by_entity"
        /\ GenerateCleanupConfig([k \in DOMAIN calls[c].returned |->
                                    calls[c].returned[k].backstage_id])

SpecWorkflow == InitWorkflow /\ [][NextWorkflow]_vars

-----------------------------------------------------------------------------
(* Vocabulary of the properties of the functions *)

CallsOf(name) == {c \in DOMAIN calls : calls[c].name = name}

(* C13: _get_record_type depends on field presence only, with a fixed        *)
(* precedence: with both ip_addr and fqdn the type is HOST when allocate_ip  *)
(* is truthy and A otherwise, whatever other fields are present; else with   *)
(* both alias and canonical it is CNAME; else with network it is NETWORK;    *)
(* else it is UNKNOWN.                                                       *)
C13_RecordTypeByPrecedence ==
    \A c \in CallsOf("_get_record_type") :
        LET config == calls[c].args[1]
            type == calls[c].returned
            address == {"ip_addr", "fqdn"} \subseteq config.fields
            alias == {"alias", "canonical"} \subseteq config.fields
            network == "network" \in config.fields
            allocates ==
                config.allocate_ip \in {Some("True"), Some("1"), Some("'yes'")}
        IN  /\ ~calls[c].raised
            /\ type = "HOST" <=> address /\ allocates
            /\ type = "A" <=> address /\ ~allocates
            /\ type = "CNAME" <=> ~address /\ alias
            /\ type = "NETWORK" <=> ~address /\ ~alias /\ network
            /\ type = "UNKNOWN" <=> ~address /\ ~alias /\ ~network

\* An entry with all five fields and a truthy allocate_ip is typed HOST.
C13_Witness ==
    \E c \in CallsOf("_get_record_type") :
        /\ calls[c].args[1].fields =
                {"ip_addr", "fqdn", "alias", "canonical", "network"}
        /\ calls[c].args[1].allocate_ip = Some("'yes'")
        /\ calls[c].returned = "HOST"

\* s is an entity segment, a hyphen, an environment, a hyphen and a
\* timestamp: the segments end at a and b
WellFormedAt(s, a, b) ==
    /\ 1 <= a
    /\ \A i \in 1..a : \/ s[i] \in 97..122      \* a-z
                       \/ s[i] \in 48..57       \* 0-9
                       \/ s[i] = 45             \* -
    /\ s[a + 1] = 45
    /\ SubSeq(s, a + 2, b) \in
            { <<100, 101, 118>>,                        \* dev
              <<115, 116, 97, 103, 105, 110, 103>>,     \* staging
              <<112, 114, 111, 100>> }                  \* prod
    /\ s[b + 1] = 45
    /\ Len(s) = b + 1 + 14
    /\ \A i \in (b + 2)..Len(s) : s[i] \in 48..57

(* C16: validate_backstage_id_format(id) is true exactly when the whole      *)
(* string is a non-empty entity segment of lowercase letters, digits and     *)
(* hyphens, a hyphen, one of dev, staging and prod, a hyphen and exactly 14  *)
(* decimal digits, with nothing before or after.                             *)
C16_ValidExactlyWhenWellFormed ==
    \A c \in CallsOf("validate_backstage_id_format") :
        LET id == calls[c].args[1]
        IN  calls[c].returned <=>
                \E a \in 1..Len(id) : \E b \in (a + 1)..(Len(id) - 15) :
                    WellFormedAt(id, a, b)

-----------------------------------------------------------------------------
(* Vocabulary of the properties of the cleanup plan and of removal *)

\* The apply-engine address of a resource key of a source category
AddressOf(source_category, resource_key) ==
    LET types == [a |-> "infoblox_a_record", cname |-> "infoblox_cname_record",
                  host |-> "infoblox_host_record", networks |-> "infoblox_network",
                  zones |-> "infoblox_zone_auth"]
        category ==
            CASE source_category = "a-records.yaml" -> "a"
              [] source_category = "cname-records.yaml" -> "cname"
              [] source_category = "host-records.yaml" -> "host"
              [] source_category = "networks.yaml" -> "networks"
              [] source_category = "dns-zones.yaml" -> "zones"
              [] OTHER -> "other"
    IN  (IF category \in DOMAIN types THEN types[category] ELSE "unknown")
        \o "." \o resource_key

(* C14: for every requested identifier that is in the registry the cleanup   *)
(* plan holds an item carrying the identifier, the resource key and the      *)
(* source category of the registry record, whose terraform_resource is       *)
(* "<type>.<resource key>", the type being that of the source category:      *)
(* infoblox_a_record, infoblox_cname_record, infoblox_host_record,           *)
(* infoblox_network, infoblox_zone_auth for the five categories and unknown  *)
(* for any other.                                                            *)
C14_PlanAddressesByCategory ==
    /\ \A c \in CallsOf("generate_cleanup_config") :
        \A i \in DOMAIN calls[c].args[1] :
            LET id == calls[c].args[1][i]
                items == calls[c].returned.resources_to_remove
            IN  id \in DictKeys(backstage_resources) =>
                    /\ ~calls[c].raised
                    /\ \E k \in DOMAIN items :
                        LET record == DictGet(backstage_resources, id)
                        IN  /\ items[k].backstage_id = id
                            /\ items[k].resource_name = record.resource_name
                            /\ items[k].source_file = record.source_file
                            /\ items[k].terraform_resource =
                                    AddressOf(record.source_file,
                                              record.resource_name)
    /\ \A c \in CallsOf("_get_terraform_resource_name") :
            calls[c].returned = AddressOf(calls[c].args[1], calls[c].args[2])

\* A plan for a host record and a zone.
C14_Witness ==
    \E c \in CallsOf("generate_cleanup_config") :
        LET items == calls[c].returned.resources_to_remove
        IN  /\ Len(items) = 2
            /\ items[1].terraform_resource = "infoblox_host_record.web"
            /\ items[2].terraform_resource = "infoblox_zone_auth.api"

(* C15: generate_cleanup_config never fails on an unknown identifier: the    *)
(* plan holds one item for each occurrence of an identifier of the registry  *)
(* in the request, in the order of the request, and none for the others, so  *)
(* it is at most as long as the request; the call changes neither the        *)
(* registry nor any file.                                                    *)
C15_PlanOmitsUnknownIdentifiers ==
    [][(calls' # calls /\ calls'[Len(calls')].name = "generate_cleanup_config") =>
        LET call == calls'[Len(calls')]
            ids == call.args[1]
            items == call.returned.resources_to_remove
            known == SelectSeq(ids, LAMBDA id : id \in DictKeys(backstage_resources))
        IN  /\ ~call.raised
            /\ [k \in DOMAIN items |-> items[k].backstage_id] = known
            /\ Len(items) <= Len(ids)
            /\ backstage_resources' = backstage_resources
            /\ config_dir' = config_dir
    ]_vars

\* A request for an unknown identifier, then a known one: one item.
C15_Witness ==
    \E c \in CallsOf("generate_cleanup_config") :
        /\ Len(calls[c].args[1]) = 2
        /\ calls[c].args[1][1] \notin DictKeys(backstage_resources)
        /\ calls[c].args[1][2] \in DictKeys(backstage_resources)
        /\ Len(calls[c].returned.resources_to_remove) = 1

\* This step is remove_backstage_resource(id) returning
RemoveStep == 
    /\ calls' # calls 
    /\ calls'[Len(calls')].name = "remove_backstage_resource"

\* The entry the registry has for the identifier of this remove step, as it
\* is in its source file before the step: None when it has gone
TargetOfRemove ==
    LET id == calls'[Len(calls')].args[1]
        record == DictGet(backstage_resources, id)
        f == CHOOSE f \in DOMAIN ManagerConfigFiles :
                ManagerConfigFiles[f] = record.source_file
        ranks == {i \in DOMAIN config_dir[f].data :
                    config_dir[f].data[i][1] = record.resource_name}
    IN  IF id \notin DictKeys(backstage_resources) \/ ranks = {}
        THEN None
        ELSE Some([file |-> f, rank |-> CHOOSE i \in ranks : TRUE])

(* C17: remove_backstage_resource(id), for an identifier of the registry     *)
(* whose resource key is still in its source file, deletes that key from     *)
(* that file, keeps every other key of the file with its entry and in its    *)
(* order, leaves every other file as it was, and returns True.               *)
C17_RemoveDeletesOneKey ==
    [][(RemoveStep /\ TargetOfRemove # None) =>
        LET f == TargetOfRemove[1].file
            rank == TargetOfRemove[1].rank
            before == config_dir[f].data
            after == config_dir'[f].data
        IN  /\ calls'[Len(calls')].returned = TRUE
            /\ ~calls'[Len(calls')].raised
            /\ config_dir'[f].exists /\ config_dir'[f].parse = "mapping"
            /\ Len(after) = Len(before) - 1
            /\ \A i \in DOMAIN after :
                after[i] = before[IF i < rank THEN i ELSE i + 1]
            /\ \A g \in DOMAIN config_dir : g # f => config_dir'[g] = config_dir[g]
    ]_vars

\* The first of two keys of a file has been removed, the second is left.
C17_Witness ==
    /\ Len(calls) = 1
    /\ calls[1].name = "remove_backstage_resource"
    /\ calls[1].returned = TRUE
    /\ \E f \in DOMAIN config_dir :
        /\ config_dir[f].comments = << >>
        /\ Len(config_dir[f].data) = 1
        /\ config_dir[f].data[1][1] = "api"
        /\ DictGet(backstage_resources, calls[1].args[1]).resource_name = "web"
        /\ DictGet(backstage_resources, calls[1].args[1]).source_file =
                ManagerConfigFiles[f]

(* C18: remove_backstage_resource(id) returns False and changes no file when *)
(* id is not in the registry, and also when the resource key of the registry *)
(* record is no longer in its source file; the remove subcommand then exits  *)
(* with a non-zero status.                                                   *)
C18_RemoveFailsWithoutWriting ==
    [][(RemoveStep /\ TargetOfRemove = None) =>
        /\ calls'[Len(calls')].returned = FALSE
        /\ ~calls'[Len(calls')].raised
        /\ calls'[Len(calls')].exit_status # 0
        /\ config_dir' = config_dir
    ]_vars

\* A removal that succeeded, then the same removal failing on the key that
\* has gone; the identifier is still in the registry.
C18_Witness ==
    /\ Len(calls) = 2
    /\ calls[1].returned = TRUE
    /\ calls[2].args = calls[1].args
    /\ calls[2].returned = FALSE
    /\ calls[2].exit_status = 1
    /\ calls[2].args[1] \in DictKeys(backstage_resources)

(* C19: load_yaml_safely never raises for a missing file, an empty file or  *)
(* a file with a syntax error: in each of the three cases it returns the     *)
(* empty document, and loading creates or modifies no file.                  *)
C19_LoadNeverRaises ==
    [][(calls' # calls /\ calls'[Len(calls')].name = "load_yaml_safely") =>
        LET call == calls'[Len(calls')]
            file == IF call.args[1] = "target_file" THEN target_file
                    ELSE backstage_file
        IN  /\ (~file.exists \/ file.parse \in {"null", "error"}) =>
                    /\ ~call.raised
                    /\ call.returned = << >>
            /\ target_file' = target_file
            /\ backstage_file' = backstage_file
    ]_vars

\* The file with a syntax error has been loaded as the empty document, and
\* the missing file beside it has not been created.
C19_Witness ==
    /\ calls # << >>
    /\ calls[1].name = "load_yaml_safely"
    /\ calls[1].args = << "target_file" >>
    /\ target_file = MalformedFile
    /\ backstage_file = MissingFile
    /\ ~calls[1].raised
    /\ calls[1].returned = << >>

-----------------------------------------------------------------------------
(* Vocabulary of the workflow property *)

\* The incoming entries that are tagged CreatedBy backstage with a non-empty
\* BackstageId, each with its file and key
IncomingBackstage ==
    UNION {
        {[file |-> ConfigFiles[f], key |-> source_dir[f].data[i][1],
          value |-> source_dir[f].data[i][2]] : i \in DOMAIN source_dir[f].data}
        : f \in DOMAIN source_dir }
    \cap {x \in [file : FileNames, key : ResourceKeys, value : IncomingEntries] :
            Qualifies(x.value)}

(* C20: after merge_all_files under backstage-wins, a manager constructed    *)
(* over the target directory has in its registry every incoming entry that   *)
(* is tagged CreatedBy backstage with a non-empty BackstageId;               *)
(* find_resources_by_entity for the incoming entity returns the records of   *)
(* those entries, and the cleanup plan for the identifiers found has exactly *)
(* one item for each record found.                                           *)
C20_MergedEntriesAreManaged ==
    (results # None /\ strategy = "backstage-wins") =>
        /\ \A c \in CallsOf("InfobloxResourceManager") :
            /\ ~calls[c].raised
            /\ \A x \in IncomingBackstage :
                /\ IdIn(x) \in DictKeys(backstage_resources)
                /\ RecordOf(DictGet(backstage_resources, IdIn(x)), x)
        /\ \A c \in CallsOf("find_resources_by_entity") :
            \A x \in IncomingBackstage :
                x.value.ea_tags[1].BackstageEntity = Some(calls[c].args[1]) =>
                    \E k \in DOMAIN calls[c].returned :
                        /\ calls[c].returned[k].backstage_id = IdIn(x)
                        /\ calls[c].returned[k].resource_name = x.key
                        /\ calls[c].returned[k].source_file = x.file
        /\ \A c \in CallsOf("generate_cleanup_config") :
            \A d \in CallsOf("find_resources_by_entity") :
                LET found == calls[d].returned
                    items == calls[c].returned.resources_to_remove
                IN  /\ ~calls[c].raised
                    /\ Len(items) = Len(found)
                    /\ \A k \in DOMAIN found :
                        /\ items[k].backstage_id = found[k].backstage_id
                        /\ items[k].resource_name = found[k].resource_name

-----------------------------------------------------------------------------
(* main of merge-backstage-config.py, and the specification of the command:  *)
(* one invocation over a source directory and a target directory, which may  *)
(* be followed by the same invocation again                                  *)

\* A backup that copies what each file parses to, not the file
create_backup_Parsed(target) ==
    [f \in DOMAIN target |->
        IF target[f].exists
        THEN IF target[f].parse = "mapping" THEN YamlFile(target[f].data)
             ELSE EmptyFile
        ELSE MissingFile]

\* BackstageMerger.create_backup: the files of backup_dir when it returns,
\* shutil.copy2 of every config file that exists in target_dir
create_backup(target) ==
    [f \in DOMAIN target |-> IF target[f].exists THEN target[f] ELSE MissingFile]

\* main, from the parsed arguments on: what it leaves in backup_dir and in
\* target_dir, and the results of merge_all_files (None when it returns
\* before merging)
main(source, target, no_backup, dry_run, strat) ==
    IF dry_run
    THEN [backup_dir |-> None, target_dir |-> target, results |-> None]
    ELSE LET backup == IF ~no_backup THEN Some(create_backup(target)) ELSE None
             done == merge_all_files(source, target, strat)
         IN  [backup_dir |-> backup, target_dir |-> done.target_dir,
              results |-> done.results]

\* The entries of the files of both directories: a manual one and one for
\* each identifier
MainEntries ==
    {Entry(None)}
    \cup {Entry(Some([NoTags EXCEPT !.BackstageId = Some(b)])) : b \in BackstageIds}

MainFiles ==
    {MissingFile, EmptyFile, MalformedFile}
    \cup {YamlFile(d) : d \in DictsOver(ResourceKeys, MainEntries)}

\* The number of times the command is run
MaxRuns == 2

\* a-records.yaml is arbitrary on both sides; cname-records.yaml is absent,
\* empty or one Backstage entry in the source and absent, malformed or one
\* manual entry in the target; host-records.yaml is absent or one manual
\* entry in the source; the other files are absent
InitMain ==
    /\ \E s1 \in MainFiles, t1 \in MainFiles :
        \E s2 \in {MissingFile, EmptyFile,
                   YamlFile(<< <<"web", Entry(Some([NoTags EXCEPT
                                    !.BackstageId = Some(IdNames[1])]))>> >>)} :
            \E t2 \in {MissingFile, MalformedFile,
                       YamlFile(<< <<"web", Entry(None)>> >>)},
               s3 \in {MissingFile, YamlFile(<< <<"api", Entry(None)>> >>)} :
                /\ source_dir = [f \in DOMAIN ConfigFiles |->
                                    IF f = 1 THEN s1 ELSE IF f = 2 THEN s2
                                    ELSE IF f = 3 THEN s3 ELSE MissingFile]
                /\ config_dir = [f \in DOMAIN ConfigFiles |->
                                    IF f = 1 THEN t1 ELSE IF f = 2 THEN t2
                                    ELSE MissingFile]
    /\ backstage_resources = << >>
    /\ listing = None
    /\ target_file = MissingFile
    /\ backstage_file = MissingFile
    /\ file_name = "a-records.yaml"
    /\ result = None
    /\ existing = << >>
    /\ new = << >>
    /\ strategy = "backstage-wins"
    /\ conflicts = << >>
    /\ merged = << >>
    /\ called = {}
    /\ calls = << >>
    /\ results = None
    /\ args = None
    /\ backup_dir = None
    /\ invocations = << >>

\* python merge-backstage-config.py <environment> --source-dir <source_dir>
\*     --strategy <strat> [--no-backup] [--dry-run]
Main(no_backup, dry_run, strat) ==
    /\ Len(calls) < MaxRuns
    /\ LET arguments == [no_backup |-> no_backup, dry_run |-> dry_run,
                         strategy |-> strat]
           done == main(source_dir, config_dir, no_backup, dry_run, strat)
       IN  /\ calls # << >> => calls[1].args = arguments
           /\ backup_dir' = done.backup_dir
           /\ config_dir' = done.target_dir
           /\ results' = done.results
           /\ calls' = Append(calls, [name |-> "main", args |-> arguments,
                                      raised |-> FALSE, returned |-> None])
    /\ strategy' = strat
    /\ UNCHANGED <<existing, new, conflicts, merged, called, fileVars,
                   backstage_resources, listing, source_dir, args, invocations>>

NextMain ==
    \E no_backup \in BOOLEAN, dry_run \in BOOLEAN, strat \in Strategies :
        Main(no_backup, dry_run, strat)

SpecMain == InitMain /\ [][NextMain]_vars

-----------------------------------------------------------------------------
(* Two invocations of merge_file on the same target file, run by two         *)
(* processes with no lock: each reads its backstage file and the target      *)
(* file, and later writes the target file from what it read                  *)

\* A merge that saves the incoming entries alone
MergeLoaded_IncomingOnly(backstage_data, existing_data, name, strat) ==
    IF backstage_data = << >> THEN [written |-> None, result |-> "False"]
    ELSE [written |-> Some(save_yaml_with_header(backstage_data,
                                RecordTypeLabel(name), KeyList(backstage_data))),
          result |-> "True"]

\* merge_file from `if not backstage_data` on, given the two documents it
\* loaded: the file it writes, if it writes, and the value it returns
MergeLoaded(backstage_data, existing_data, name, strat) ==
    IF backstage_data = << >> THEN [written |-> None, result |-> "False"]
    ELSE IF FailsOnConflict(detect_conflicts(existing_data, backstage_data), strat)
    THEN [written |-> None, result |-> "False"]
    ELSE [written |->
            Some(save_yaml_with_header(
                    resolve_conflicts(existing_data, backstage_data, strat),
                    RecordTypeLabel(name), KeyList(backstage_data))),
          result |-> "True"]

\* The files Backstage generates: empty, or entries that carry an identifier
GeneratedFiles ==
    {EmptyFile}
    \cup {YamlFile(d) :
            d \in DictsOver(ResourceKeys, MainEntries \ {Entry(None)}) \ {<< >>}}

\* The target file is absent or holds one entry, manual or from Backstage;
\* each invocation has its own backstage file and strategy
InitConcurrent ==
    /\ target_file \in {MissingFile} \cup
            {YamlFile(<< <<"web", e>> >>) : e \in MainEntries}
    /\ invocations \in
            [1..2 -> [backstage_file : GeneratedFiles, strategy : Strategies,
                      pc : {"load"}, backstage_data : {<< >>},
                      existing_data : {<< >>}, result : {"None"}]]
    /\ backstage_file = MissingFile
    /\ file_name = "a-records.yaml"
    /\ result = None
    /\ existing = << >>
    /\ new = << >>
    /\ strategy = "backstage-wins"
    /\ conflicts = << >>
    /\ merged = << >>
    /\ called = {}
    /\ config_dir = << >>
    /\ backstage_resources = << >>
    /\ listing = None
    /\ calls = << >>
    /\ source_dir = << >>
    /\ results = None
    /\ args = None
    /\ backup_dir = None

\* Invocation p: backstage_data = self.load_yaml_safely(backstage_file);
\* existing_data = self.load_yaml_safely(target_file)
LoadFiles(p) ==
    /\ invocations[p].pc = "load"
    /\ invocations' = [invocations EXCEPT
            ![p].backstage_data = load_yaml_safely(invocations[p].backstage_file),
            ![p].existing_data = load_yaml_safely(target_file),
            ![p].pc = "save"]
    /\ calls' = Append(calls, [name |-> "load_yaml_safely", args |-> <<p>>,
                               raised |-> FALSE, returned |-> None])
    /\ UNCHANGED <<mergeVars, fileVars, managerVars, source_dir, results, args,
                   backup_dir>>

\* Invocation p: the rest of merge_file, which saves the merged document to
\* the target file unless it returns False
SaveMerged(p) ==
    /\ invocations[p].pc = "save"
    /\ LET done == MergeLoaded(invocations[p].backstage_data,
                               invocations[p].existing_data, file_name,
                               invocations[p].strategy)
       IN  /\ target_file' = IF done.written = None THEN target_file
                             ELSE done.written[1]
           /\ invocations' = [invocations EXCEPT ![p].result = done.result,
                                                 ![p].pc = "done"]
    /\ calls' = Append(calls, [name |-> "save_yaml_with_header", args |-> <<p>>,
                               raised |-> FALSE, returned |-> None])
    /\ UNCHANGED <<mergeVars, backstage_file, file_name, result, managerVars,
                   source_dir, results, args, backup_dir>>

NextConcurrent ==
    \E p \in DOMAIN invocations : LoadFiles(p) \/ SaveMerged(p)

SpecConcurrent == InitConcurrent /\ [][NextConcurrent]_vars

-----------------------------------------------------------------------------
(* Vocabulary of the properties of the command *)

\* This step is a run of main that merges (no --dry-run)
MainStep ==
    /\ Len(calls') = Len(calls) + 1
    /\ calls'[Len(calls')].name = "main"
    /\ ~calls'[Len(calls')].args.dry_run

\* The category files that exist in the target directory
ExistingFiles == {f \in DOMAIN config_dir : config_dir[f].exists}

\* The last call made
LastCall == calls[Len(calls)]

-----------------------------------------------------------------------------
(* C21: in a run of main that merges and was not given --no-backup, every   *)
(* category file that exists in the target directory when the run starts    *)
(* has, when the run ends, a copy in the backup directory that equals the   *)
(* content it had when the run started, whether the merge of each file      *)
(* succeeded, failed or was skipped; without backups no directory is made.  *)
C21_BackupHoldsPreMergeContent ==
    [][MainStep =>
        IF calls'[Len(calls')].args.no_backup
        THEN backup_dir' = None
        ELSE /\ backup_dir' # None
             /\ \A f \in ExistingFiles : backup_dir'[1][f] = config_dir[f]
             /\ \A f \in DOMAIN config_dir \ ExistingFiles :
                    ~backup_dir'[1][f].exists]_vars

\* A run with backups merged a-records.yaml over a malformed target and
\* failed or skipped cname-records.yaml: the backup holds the malformed file,
\* which the target directory no longer does
C21_Witness ==
    /\ calls # << >>
    /\ LastCall.name = "main"
    /\ ~LastCall.args.no_backup
    /\ results # None
    /\ results[1] = "True"
    /\ results[2] \in {"False", "None"}
    /\ backup_dir # None
    /\ backup_dir[1][1] = MalformedFile
    /\ config_dir[1] # MalformedFile
    /\ backup_dir[1][2] = config_dir[2]

-----------------------------------------------------------------------------
(* Vocabulary of the properties of concurrent invocations *)

BothDone ==
    /\ DOMAIN invocations = {1, 2}
    /\ \A p \in DOMAIN invocations : invocations[p].pc = "done"

\* Neither invocation read the target file between the other's read and the
\* end of the other: the first two steps were taken by the same invocation
OneAfterTheOther == BothDone /\ calls[1].args = calls[2].args

FinalKeys == DictKeys(load_yaml_safely(target_file))

IncomingKeys(p) == DictKeys(load_yaml_safely(invocations[p].backstage_file))

Merged(p) == invocations[p].result = "True"

-----------------------------------------------------------------------------
(* C22, as stated: when two invocations on the same target file run one      *)
(* after the other, the final file contains the keys of both incoming        *)
(* documents.                                                                *)
C22_SequentialKeepsBothIncoming ==
    OneAfterTheOther =>
        \A p \in DOMAIN invocations : IncomingKeys(p) \subseteq FinalKeys

(* C22, amended: when two invocations on the same target file run one after  *)
(* the other, the final file contains the keys of the incoming document of   *)
(* every invocation that reported success; an invocation reports failure     *)
(* only when its incoming document is empty or its strategy is               *)
(* fail-on-conflict. (Interleaved, both can report success and the final     *)
(* file lack a key that one of them merged: the witness.)                    *)
C22_SequentialKeepsMergedIncoming ==
    BothDone =>
        /\ OneAfterTheOther =>
            \A p \in DOMAIN invocations :
                Merged(p) => IncomingKeys(p) \subseteq FinalKeys
        /\ \A p \in DOMAIN invocations :
            ~Merged(p) =>
                \/ IncomingKeys(p) = {}
                \/ invocations[p].strategy = "fail-on-conflict"

\* A lost update: both invocations read the target before either wrote it,
\* both reported success, and the final file lacks a key that one merged
C22_Witness ==
    /\ BothDone
    /\ ~OneAfterTheOther
    /\ \A p \in DOMAIN invocations : Merged(p)
    /\ \E p \in DOMAIN invocations : ~(IncomingKeys(p) \subseteq FinalKeys)

-----------------------------------------------------------------------------
(* Vocabulary of the properties of merge_all_files *)

Incoming(f) == load_yaml_safely(source_dir[f])

Existing(f) == load_yaml_safely(config_dir[f])

\* The merge of category f fails: nothing incoming, or a conflict under
\* fail-on-conflict
Fails(f, strat) ==
    \/ Incoming(f) = << >>
    \/ /\ strat = "fail-on-conflict"
       /\ \E k \in SharedKeys(Existing(f), Incoming(f)) :
            LET eid == IdOf(DictGet(Existing(f), k))
                nid == IdOf(DictGet(Incoming(f), k))
            IN  HasId(DictGet(Incoming(f), k)) /\ eid # nid

-----------------------------------------------------------------------------
(* C23: a run of merge_all_files gives one result for each of the five      *)
(* categories, in the order a-records, cname-records, host-records,         *)
(* networks, dns-zones, and each category's result and target file depend   *)
(* on that category's source and target files alone: None and the target    *)
(* untouched when there is no source file; False and the target untouched   *)
(* when the incoming document is empty or, under fail-on-conflict, there is *)
(* a conflict; True and the merged document saved otherwise, whatever the   *)
(* results of the categories before and after it.                            *)
C23_CategoriesMergedIndependently ==
    [][MainStep =>
        /\ DOMAIN results' = DOMAIN ConfigFiles
        /\ \A f \in DOMAIN ConfigFiles :
            IF ~source_dir[f].exists
            THEN results'[f] = "None" /\ config_dir'[f] = config_dir[f]
            ELSE IF Fails(f, strategy')
            THEN results'[f] = "False" /\ config_dir'[f] = config_dir[f]
            ELSE /\ results'[f] = "True"
                 /\ config_dir'[f].exists
                 /\ config_dir'[f].parse = "mapping"
                 /\ config_dir'[f].data =
                        resolve_conflicts(Existing(f), Incoming(f), strategy')]_vars

\* a-records.yaml was merged over other content, cname-records.yaml failed
\* and was left as it was, host-records.yaml was merged after that failure,
\* networks.yaml had no source file
C23_Witness ==
    /\ calls # << >>
    /\ LastCall.name = "main"
    /\ results = << "True", "False", "True", "None", "None" >>
    /\ backup_dir # None
    /\ backup_dir[1][1] # config_dir[1]
    /\ backup_dir[1][2] = config_dir[2]
    /\ config_dir[2].exists
    /\ config_dir[3].exists
    /\ ~config_dir[4].exists

-----------------------------------------------------------------------------
(* C24: when a target category file has a syntax error and the incoming      *)
(* document of that category is not empty, the merge of that category        *)
(* succeeds under every strategy, fail-on-conflict included (no conflict is  *)
(* detected against a file read as empty), and the target file is            *)
(* overwritten with exactly the incoming entries in their order; what the    *)
(* file held is then only in the backup, when a backup was made.             *)
C24_MalformedTargetIsOverwritten ==
    [][MainStep =>
        \A f \in DOMAIN ConfigFiles :
            (/\ config_dir[f] = MalformedFile
             /\ source_dir[f].exists
             /\ source_dir[f].parse = "mapping"
             /\ source_dir[f].data # << >>) =>
                /\ results'[f] = "True"
                /\ config_dir'[f].parse = "mapping"
                /\ config_dir'[f].data = source_dir[f].data
                /\ backup_dir' # None => backup_dir'[1][f] = MalformedFile]_vars

\* Under fail-on-conflict, a-records.yaml with a syntax error was replaced
\* by the two incoming entries, one of them a Backstage entry; the backup
\* has the malformed file
C24_Witness ==
    /\ calls # << >>
    /\ LastCall.name = "main"
    /\ LastCall.args.strategy = "fail-on-conflict"
    /\ Len(calls) = 1
    /\ results # None
    /\ results[1] = "True"
    /\ backup_dir # None
    /\ backup_dir[1][1] = MalformedFile
    /\ config_dir[1].data = source_dir[1].data
    /\ Len(config_dir[1].data) = 2
    /\ \E k \in DOMAIN config_dir[1].data : HasId(config_dir[1].data[k][2])

-----------------------------------------------------------------------------
(* Vocabulary of the properties of ownership *)

\* An entry Backstage generated under an identifier no file holds
Probe == Entry(Some([NoTags EXCEPT !.BackstageId = Some(IdNames[4])]))

\* detect_conflicts reports the entry as a Backstage resource about to
\* overwrite a manual one
AutomationForDetect(value) ==
    detect_conflicts(<< <<"web", Entry(None)>> >>, << <<"web", value>> >>) # << >>

\* resolve_conflicts protects the entry as a manual one from a Backstage entry
ManualForResolve(value) ==
    resolve_conflicts(<< <<"web", value>> >>, << <<"web", Probe>> >>,
                      "manual-protected") = << <<"web", value>> >>

AutomationOwned(value) == AutomationForDetect(value) /\ ~ManualForResolve(value)

ManuallyOwned(value) == ~AutomationForDetect(value) /\ ManualForResolve(value)

\* The registry was built: the manager was constructed
RegistryBuilt ==
    \E c \in CallsOf("InfobloxResourceManager") : ~calls[c].raised

\* The identifier of the entry is a key of the registry
Indexed(x) == HasId(x.value) /\ IdIn(x) \in DictKeys(backstage_resources)

\* A record of the registry describes the entry
HasRecord(x) ==
    /\ x.value.ea_tags # None
    /\ \E i \in DOMAIN backstage_resources : RecordOf(backstage_resources[i][2], x)

-----------------------------------------------------------------------------
(* C25, as stated: every entry that detect_conflicts and resolve_conflicts   *)
(* treat as automation-owned (it has a non-empty BackstageId) is indexed by  *)
(* a registry built over the files that contain it, and every entry they     *)
(* treat as manual is not.                                                   *)
C25_OwnershipSameEverywhere ==
    RegistryBuilt =>
        \A x \in DirEntries :
            /\ AutomationOwned(x.value) => Indexed(x)
            /\ ManuallyOwned(x.value) => ~Indexed(x)

(* C25, amended: detect_conflicts and resolve_conflicts classify an entry by *)
(* its BackstageId alone, automation-owned exactly when it is non-empty; the *)
(* registry also requires CreatedBy to be "backstage". So every entry the    *)
(* registry indexes is automation-owned for the merge, and every entry that  *)
(* is manual for the merge has no record; but an entry with an identifier    *)
(* whose CreatedBy is not "backstage" is automation-owned for the merge and  *)
(* has no record in the registry.                                            *)
C25_RegistryAlsoRequiresCreatedBy ==
    RegistryBuilt =>
        \A x \in DirEntries :
            /\ AutomationOwned(x.value) <=> HasId(x.value)
            /\ ManuallyOwned(x.value) <=> ~HasId(x.value)
            /\ Qualifies(x.value) => AutomationOwned(x.value) /\ Indexed(x)
            /\ HasRecord(x) => Qualifies(x.value)
            /\ ManuallyOwned(x.value) => ~HasRecord(x) /\ ~Indexed(x)

\* The merge wrote an entry with an identifier and no CreatedBy next to one
\* tagged CreatedBy backstage: the registry holds the second and not the first
C25_Witness ==
    /\ RegistryBuilt
    /\ results # None
    /\ "True" \in {results[f] : f \in DOMAIN results}
    /\ \E x, y \in DirEntries :
        /\ AutomationOwned(x.value)
        /\ ~Qualifies(x.value)
        /\ ~Indexed(x)
        /\ Qualifies(y.value)
        /\ HasRecord(y)
    /\ \E z \in DirEntries : ManuallyOwned(z.value)

-----------------------------------------------------------------------------
(* Vocabulary of the properties of a repeated merge *)

\* The keys detect_conflicts reports for the two documents
ConflictKeys(ex, nw) ==
    LET found == detect_conflicts(ex, nw)
    IN  {found[i].key : i \in DOMAIN found}

\* The keys in both documents whose existing entry the merge kept
KeptKeys ==
    {k \in SharedKeys(existing, new) : DictGet(merged, k) = DictGet(existing, k)}

-----------------------------------------------------------------------------
(* C26: when resolve_conflicts runs under fail-on-conflict on two documents  *)
(* in which detect_conflicts finds no conflict (the only case in which       *)
(* merge_file calls it with that strategy), every key present in both        *)
(* documents keeps its existing entry, an incoming entry with the same       *)
(* BackstageId included, every key absent from existing is added with its    *)
(* incoming entry, and nothing else changes.                                 *)
C26_FailOnConflictKeepsExisting ==
    (Resolved("fail-on-conflict") /\ detect_conflicts(existing, new) = << >>) =>
        /\ DictKeys(merged) = DictKeys(existing) \cup DictKeys(new)
        /\ \A k \in DictKeys(existing) : DictGet(merged, k) = DictGet(existing, k)
        /\ \A k \in DictKeys(new) \ DictKeys(existing) :
                DictGet(merged, k) = DictGet(new, k)

\* No conflict; the incoming document carries a newer entry under the same
\* BackstageId for a key of existing, which is not applied, and a new key,
\* which is added
C26_Witness ==
    /\ Resolved("fail-on-conflict")
    /\ detect_conflicts(existing, new) = << >>
    /\ \E k \in SharedKeys(existing, new) :
        /\ HasId(DictGet(existing, k))
        /\ IdOf(DictGet(new, k)) = IdOf(DictGet(existing, k))
        /\ DictGet(new, k) # DictGet(existing, k)
        /\ DictGet(merged, k) = DictGet(existing, k)
    /\ \E k \in DictKeys(new) \ DictKeys(existing) :
        DictGet(merged, k) = DictGet(new, k)

-----------------------------------------------------------------------------
(* C27: merging is idempotent in the incoming document: for every existing   *)
(* document, incoming document and strategy, resolving the incoming          *)
(* document again into the merged document gives the merged document, keys   *)
(* in the same order, so the same merge run again leaves the target          *)
(* document as the first run left it.                                        *)
C27_ResolveIsIdempotent ==
    (called = {"resolve_conflicts"}) =>
        resolve_conflicts(merged, new, strategy) = merged

\* A timestamp-wins merge that replaced one entry of existing, kept another
\* and so produced a document that is neither of the two it was given
C27_Witness ==
    /\ Resolved("timestamp-wins")
    /\ merged # existing
    /\ merged # new
    /\ \E k \in SharedKeys(existing, new) :
        /\ DictGet(merged, k) = DictGet(new, k)
        /\ DictGet(merged, k) # DictGet(existing, k)
    /\ \E k \in SharedKeys(existing, new) :
        /\ DictGet(merged, k) = DictGet(existing, k)
        /\ DictGet(merged, k) # DictGet(new, k)
    /\ resolve_conflicts(merged, new, strategy) = merged

-----------------------------------------------------------------------------
(* C28: after a backstage-wins merge detect_conflicts finds no conflict      *)
(* between the merged document and the same incoming document; after a      *)
(* manual-protected or timestamp-wins merge it reports again exactly the     *)
(* conflicts on the keys whose existing entry the merge kept.                *)
C28_BackstageWinsSettlesConflicts ==
    /\ Resolved("backstage-wins") => detect_conflicts(merged, new) = << >>
    /\ (Resolved("manual-protected") \/ Resolved("timestamp-wins")) =>
            ConflictKeys(merged, new) = ConflictKeys(existing, new) \cap KeptKeys

\* A backstage-wins merge that was given two conflicts and left none, the
\* merged document holding the incoming entries
C28_Witness ==
    /\ Resolved("backstage-wins")
    /\ Cardinality(ConflictKeys(existing, new)) = 2
    /\ detect_conflicts(merged, new) = << >>
    /\ \A k \in ConflictKeys(existing, new) : DictGet(merged, k) = DictGet(new, k)

-----------------------------------------------------------------------------
(* Vocabulary of the properties of a registry after a removal *)

\* The calls so far that removed the identifier
SuccessfulRemoves(id) ==
    {c \in CallsOf("remove_backstage_resource") :
        calls[c].args[1] = id /\ calls[c].returned = TRUE}

\* The identifiers that list_backstage_resources() returns
ListedIds(registry) ==
    LET items == list_backstage_resources(registry, None).value
    IN  {items[i].backstage_id : i \in DOMAIN items}

-----------------------------------------------------------------------------
(* C29: after remove_backstage_resource(id) returns True, a registry rebuilt *)
(* from the configuration files does not contain id, also when several       *)
(* entries carried id; the registry of the manager that removed it is not    *)
(* updated, so list still returns id, and a second                            *)
(* remove_backstage_resource(id) on that manager returns False and changes   *)
(* no file.                                                                  *)
C29_RemovedIdLeavesRebuiltRegistry ==
    [][RemoveStep =>
        LET id == calls'[Len(calls')].args[1]
            success == calls'[Len(calls')].returned
        IN  /\ success =>
                /\ id \notin DictKeys(load_configurations(config_dir'))
                /\ backstage_resources' = backstage_resources
                /\ id \in ListedIds(backstage_resources')
            /\ SuccessfulRemoves(id) # {} =>
                /\ ~success
                /\ config_dir' = config_dir
    ]_vars

-----------------------------------------------------------------------------
(* C30: list_backstage_resources(entity_filter) with a non-empty filter      *)
(* raises no error whatever the registry holds, a record without a           *)
(* BackstageEntity tag included; no such record is in the filtered result,   *)
(* and none is in a result of find_resources_by_entity.                      *)
C30_FilteredListNeverRaises ==
    /\ (listing # None /\ listing[1].filter \notin {None, Some(StrEmpty)}) =>
            /\ ~listing[1].raised
            /\ \A k \in DOMAIN listing[1].value :
                    listing[1].value[k].entity_name # None
    /\ \A c \in CallsOf("find_resources_by_entity") :
            /\ ~calls[c].raised
            /\ \A k \in DOMAIN calls[c].returned :
                    calls[c].returned[k].entity_name # None

====
